---- MODULE Spec2Model ----
(***************************************************************************)
(* Model of the modu-snake simulation core: the collision handlers, the    *)
(* four per-frame systems and the connect / disconnect callbacks, taken    *)
(* from the fixed-point variant of systems.ts.  The entity store, the      *)
(* physics plugin, the input plugin and the random source are the engine's *)
(* and appear here as the inputs of the actions.                           *)
(***************************************************************************)
EXTENDS Integers, Sequences, FiniteSets, TLC

VARIABLES world, replica, pc, events, used, connected, run, last

vars == <<world, replica, pc, events, used, connected, run, last>>

(***************************************************************************)
(* Program constants                                                       *)
(***************************************************************************)
WORLD_WIDTH == 4000
WORLD_HEIGHT == 4000
SPEED == 8
BOOST_SPEED == 18
BOOST_COST_FRAMES == 10
MIN_BOOST_LENGTH == 10
BASE_HEAD_RADIUS == 16
BASE_SEGMENT_RADIUS == 14
INITIAL_LENGTH == 15
SEGMENT_SPAWN_INTERVAL == 1
FOOD_COUNT == 100
MAX_FOOD == 200
FOOD_SPAWN_CHANCE == 30
NUM_COLORS == 12
DIR_SCALE == 1000
FP_ONE == 65536
TURN_SPEED_FP == 9830

(***************************************************************************)
(* Bounds of the model                                                     *)
(***************************************************************************)
NumClients == 2
\* frames a run of Spec or SpecTwin plays beyond its start state
MaxFrames == 1
\* connects, disconnects and collision callbacks in a run of Spec or SpecTwin
MaxSteps == 2
\* frames a run of SpecBoost plays beyond its start state
MaxBoostFrames == 10
\* food pickups and frames without boost in a run of SpecBoost
MaxBreaks == 1
\* food records left in the room of the start states
MaxRoomFood == 1
\* frames played before the start state of the snake near the right wall
EdgeFrames == 10
\* frames played by each of the two snakes of the start state Duel
DuelFrames == 2
\* boosted frames played before the start state one payment above the floor
FloorFrames == 49

\* frames a run of SpecSteer plays beyond its start state
MaxSteerFrames == 2
\* steered frames played before the start state of the snake that has turned
TurnFrames == 30

\* largest length the pruning is compared at
MaxPruneLength == 18
MaxHoldFrames == 3
MaxHoldSteps == 1

Clients == 1..NumClients

(***************************************************************************)
(* Small arithmetic: JavaScript's "| 0" and Math.round                     *)
(***************************************************************************)
Abs(n) == IF n < 0 THEN -n ELSE n

\* (a / b) | 0 : the quotient truncated toward zero, b > 0
TruncDiv(a, b) == IF a >= 0 THEN a \div b ELSE -((-a) \div b)

\* Math.round(a / b) : nearest integer, halves toward +infinity, b > 0
RoundDiv(a, b) == (2 * a + b) \div (2 * b)

\* Math.round of a coordinate given in half units
MathRound(h) == (h + 1) \div 2

(***************************************************************************)
(* Client-id strings and their comparison                                  *)
(***************************************************************************)
\* game.getClientIdString(numericId) || '' : strings as sequences of char codes
getClientIdStr(numericId) ==
    IF numericId = 1 THEN <<98>>
    ELSE IF numericId = 2 THEN <<97, 98>>
    ELSE IF numericId = 3 THEN <<97>>
    ELSE <<>>

RECURSIVE StrLess(_, _)
StrLess(a, b) ==
    IF b = <<>> THEN FALSE
    ELSE IF a = <<>> THEN TRUE
    ELSE IF Head(a) < Head(b) THEN TRUE
    ELSE IF Head(a) > Head(b) THEN FALSE
    ELSE StrLess(Tail(a), Tail(b))

compareStrings(a, b) == IF StrLess(a, b) THEN -1 ELSE IF StrLess(b, a) THEN 1 ELSE 0

(***************************************************************************)
(* The store's query and the sorts the systems apply to it                 *)
(***************************************************************************)
RECURSIVE AscSeq(_)
AscSeq(S) ==
    IF S = {} THEN <<>>
    ELSE LET m == CHOOSE x \in S : \A y \in S : x <= y
         IN  <<m>> \o AscSeq(S \ {m})

RECURSIVE Reverse(_)
Reverse(s) == IF s = <<>> THEN <<>> ELSE Reverse(Tail(s)) \o <<Head(s)>>

Rotate(s) == IF s = <<>> THEN <<>> ELSE Tail(s) \o <<Head(s)>>

\* the iteration orders the store may hand a query back in
StoreOrders == {"asc", "desc", "rot", "rotdesc"}

\* a second store that iterates differently from the first
OtherOrder(ord) ==
    IF ord = "asc" THEN "desc"
    ELSE IF ord = "desc" THEN "rot"
    ELSE IF ord = "rot" THEN "rotdesc"
    ELSE "asc"

\* game.query(type) : the records of one kind, in the store's order
Query(S, ord) ==
    IF ord = "asc" THEN AscSeq(S)
    ELSE IF ord = "desc" THEN Reverse(AscSeq(S))
    ELSE IF ord = "rot" THEN Rotate(AscSeq(S))
    ELSE Rotate(Reverse(AscSeq(S)))

RECURSIVE InsertByEid(_, _)
InsertByEid(e, s) ==
    IF s = <<>> THEN <<e>>
    ELSE IF e < Head(s) THEN <<e>> \o s
    ELSE <<Head(s)>> \o InsertByEid(e, Tail(s))

\* the query used as the store returns it
Unsorted(s) == s

\* [...query].sort((a, b) => a.eid - b.eid)
RECURSIVE SortByEid(_)
SortByEid(s) == IF s = <<>> THEN <<>> ELSE InsertByEid(Head(s), SortByEid(Tail(s)))

(***************************************************************************)
(* Fixed-point library (16.16): products and quotients truncate            *)
(***************************************************************************)
\* floor(a * b / 65536) for a, b >= 0, by 16-bit halves so no product leaves 31 bits
FpMulNat(a, b) ==
    LET ah == a \div FP_ONE
        al == a % FP_ONE
        bh == b \div FP_ONE
        bl == b % FP_ONE
        lolo == ((al \div 256) * bl + ((al % 256) * bl) \div 256) \div 256
    IN  ah * bh * FP_ONE + ah * bl + al * bh + lolo

fpMul(a, b) ==
    IF (a < 0) = (b < 0) THEN FpMulNat(Abs(a), Abs(b)) ELSE -FpMulNat(Abs(a), Abs(b))

\* long division: n more quotient bits of r / b
RECURSIVE DivBits(_, _, _, _)
DivBits(q, r, b, n) ==
    IF n = 0 THEN q
    ELSE IF 2 * r >= b THEN DivBits(2 * q + 1, 2 * r - b, b, n - 1)
    ELSE DivBits(2 * q, 2 * r, b, n - 1)

\* floor(a * 65536 / b) for a >= 0, b > 0
FpDivNat(a, b) == DivBits(a \div b, a % b, b, 16)

fpDiv(a, b) ==
    IF (a < 0) = (b < 0) THEN FpDivNat(Abs(a), Abs(b)) ELSE -FpDivNat(Abs(a), Abs(b))

\* c * c <= a * 65536, for 0 <= c < 2^24
SqLeq(c, a) ==
    LET ch == c \div FP_ONE
        l8 == c % 256
        h8 == (c % FP_ONE) \div 256
    IN  IF ch >= 181 THEN FALSE
        ELSE LET hi == FpMulNat(c, c)
                 lo == (((2 * h8 * l8) % 256) * 256 + l8 * l8) % FP_ONE
             IN  hi < a \/ (hi = a /\ lo = 0)

RECURSIVE SqrtBits(_, _, _)
SqrtBits(a, r, bit) ==
    IF bit < 0 THEN r
    ELSE IF SqLeq(r + 2 ^ bit, a) THEN SqrtBits(a, r + 2 ^ bit, bit - 1)
    ELSE SqrtBits(a, r, bit - 1)

\* the fixed-point square root: the largest r with r * r <= a * 65536
fpSqrt(a) == IF a <= 0 THEN 0 ELSE SqrtBits(a, 0, 23)

toFixed(n) == n * FP_ONE

(***************************************************************************)
(* Records of the store                                                    *)
(***************************************************************************)
\* a snake-head as game.spawn creates it: component defaults of SnakeHead, Sprite
NewHead(clientId, x, y, color, frame) ==
    [clientId |-> clientId, x |-> x, y |-> y, color |-> color,
     length |-> INITIAL_LENGTH, dirX |-> DIR_SCALE, dirY |-> 0,
     prevDirX |-> DIR_SCALE, prevDirY |-> 0, lastSpawnFrame |-> frame,
     boostFrames |-> 0, boosting |-> 0, radius |-> BASE_HEAD_RADIUS,
     vx |-> 0, vy |-> 0, destroyed |-> FALSE]

NewSegment(ownerId, x, y, color, frame) ==
    [ownerId |-> ownerId, spawnFrame |-> frame, x |-> x, y |-> y, color |-> color,
     radius |-> BASE_SEGMENT_RADIUS, destroyed |-> FALSE]

NewFood(x, y, color) == [x |-> x, y |-> y, color |-> color, destroyed |-> FALSE]

\* the world of one simulation instance before the room is created
EmptyWorld ==
    [frame |-> 0, nextEid |-> 1, heads |-> <<>>, segs |-> <<>>, foods |-> <<>>,
     byClient |-> [c \in Clients |-> 0]]

LiveHeads(w) == {e \in DOMAIN w.heads : ~w.heads[e].destroyed}
LiveSegs(w) == {e \in DOMAIN w.segs : ~w.segs[e].destroyed}
LiveFoods(w) == {e \in DOMAIN w.foods : ~w.foods[e].destroyed}

\* game.world.getEntityByClientId(clientId) : 0 stands for undefined
getEntityByClientId(w, clientId) == w.byClient[clientId]

(***************************************************************************)
(* killSnake, spawnSnake, spawnFood                                        *)
(***************************************************************************)
RECURSIVE DestroyOwned(_, _, _)
DestroyOwned(segs, order, clientId) ==
    IF order = <<>> THEN segs
    ELSE LET e == Head(order)
             next == IF segs[e].ownerId = clientId
                     THEN [segs EXCEPT ![e].destroyed = TRUE]
                     ELSE segs
         IN  DestroyOwned(next, Tail(order), clientId)

\* killSnake that forgets the owner test and destroys every segment
killSnakeAnyOwner(w, clientId, ord) ==
    LET head == getEntityByClientId(w, clientId)
    IN  IF head = 0 \/ w.heads[head].destroyed THEN w
        ELSE [w EXCEPT !.segs = [s \in DOMAIN w.segs |->
                                   [w.segs[s] EXCEPT !.destroyed = TRUE]],
                       !.heads[head].destroyed = TRUE]

\* killSnake that destroys the head and leaves its segments
killSnakeHeadOnly(w, clientId, ord) ==
    LET head == getEntityByClientId(w, clientId)
    IN  IF head = 0 \/ w.heads[head].destroyed THEN w
        ELSE [w EXCEPT !.heads[head].destroyed = TRUE]

killSnake(w, clientId, ord) ==
    LET head == getEntityByClientId(w, clientId)
    IN  IF head = 0 \/ w.heads[head].destroyed THEN w
        ELSE LET segments == SortByEid(Query(DOMAIN w.segs, ord))
             IN  [w EXCEPT !.segs = DestroyOwned(w.segs, segments, clientId),
                           !.heads[head].destroyed = TRUE]

\* the three draws of spawnSnake are thousandths of Math.random()
spawnSnake(w, clientId, rColor, rX, rY) ==
    LET color == (rColor * NUM_COLORS) \div 1000
        startX == 200 + (rX * (WORLD_WIDTH - 400)) \div 1000
        startY == 200 + (rY * (WORLD_HEIGHT - 400)) \div 1000
    IN  [w EXCEPT !.heads = w.heads @@
                      (w.nextEid :> NewHead(clientId, startX, startY, color, w.frame)),
                  !.byClient[clientId] = w.nextEid,
                  !.nextEid = w.nextEid + 1]

\* game.spawn('food', ...)
SpawnFoodAt(w, x, y, color) ==
    [w EXCEPT !.foods = w.foods @@ (w.nextEid :> NewFood(x, y, color)),
              !.nextEid = w.nextEid + 1]

\* spawnFood(game) with no arguments: colour and place are drawn
spawnFood(w, rColor, rX, rY) ==
    SpawnFoodAt(w, 50 + (rX * (WORLD_WIDTH - 100)) \div 1000,
                   50 + (rY * (WORLD_HEIGHT - 100)) \div 1000,
                   (rColor * NUM_COLORS) \div 1000)

(***************************************************************************)
(* Collision handlers                                                      *)
(***************************************************************************)
\* the handler without its own-segment test
OnHeadSegmentNoOwnTest(w, head, segment, ord) ==
    IF w.heads[head].destroyed \/ w.segs[segment].destroyed THEN w
    ELSE killSnake(w, w.heads[head].clientId, ord)

\* physics.onCollision('snake-head', 'snake-segment', ...)
OnHeadSegment(w, head, segment, ord) ==
    IF w.heads[head].destroyed \/ w.segs[segment].destroyed THEN w
    ELSE LET headClientId == w.heads[head].clientId
             segOwnerId == w.segs[segment].ownerId
         IN  IF segOwnerId = headClientId THEN w
             ELSE killSnake(w, headClientId, ord)

\* the handler without food.destroy()
OnHeadFoodKeepsFood(w, head, food) ==
    IF w.foods[food].destroyed THEN w
    ELSE [w EXCEPT !.heads[head].length = @ + 1]

\* the handler without the test of food.destroyed
OnHeadFoodNoTest(w, head, food) ==
    [w EXCEPT !.heads[head].length = @ + 1,
              !.foods[food].destroyed = TRUE]

\* physics.onCollision('snake-head', 'food', ...)
OnHeadFood(w, head, food) ==
    IF w.foods[food].destroyed THEN w
    ELSE [w EXCEPT !.heads[head].length = @ + 1,
                   !.foods[food].destroyed = TRUE]

(***************************************************************************)
(* Movement system                                                         *)
(***************************************************************************)
\* game.world.getInput(clientId): NoInput is undefined; target <<>> is no target,
\* otherwise the target's coordinates in half units
NoInput == [present |-> FALSE, target |-> <<>>, boost |-> FALSE]

\* fpMul(x, x) + fpMul(y, y)
LenSqFp(xFp, yFp) == fpMul(xFp, xFp) + fpMul(yFp, yFp)

\* the conversion back to DIR_SCALE of the blend divided by its length; the blend
\* itself where the length is 0
StoreDir(newDirXFp, newDirYFp, newLenFp) ==
    <<TruncDiv((IF newLenFp > 0 THEN fpDiv(newDirXFp, newLenFp) ELSE newDirXFp) * DIR_SCALE,
               FP_ONE),
      TruncDiv((IF newLenFp > 0 THEN fpDiv(newDirYFp, newLenFp) ELSE newDirYFp) * DIR_SCALE,
               FP_ONE)>>

\* the blend stored without the normalisation
NormaliseDirSkipped(newDirXFp, newDirYFp, newLenSqFp) == StoreDir(newDirXFp, newDirYFp, 0)

\* if (newLenSqFp > 0) { newLenFp = fpSqrt(newLenSqFp); ... }
NormaliseDir(newDirXFp, newDirYFp, newLenSqFp) ==
    StoreDir(newDirXFp, newDirYFp, IF newLenSqFp > 0 THEN fpSqrt(newLenSqFp) ELSE 0)

\* curDir + (desired - curDir) * turnSpeed
Blend(curDirFp, desiredFp) == curDirFp + fpMul(desiredFp - curDirFp, TURN_SPEED_FP)

BlendDir(newDirXFp, newDirYFp) ==
    NormaliseDir(newDirXFp, newDirYFp, LenSqFp(newDirXFp, newDirYFp))

\* the turn toward a target at fixed-point offset (dxFp, dyFp) and distance distFp
Turn(sh, dxFp, dyFp, distFp) ==
    BlendDir(Blend(TruncDiv(sh.dirX * FP_ONE, DIR_SCALE), fpDiv(dxFp, distFp)),
             Blend(TruncDiv(sh.dirY * FP_ONE, DIR_SCALE), fpDiv(dyFp, distFp)))

\* the distance test with >= for >: a target exactly 1 unit away turns the head
TurnIfFarInclusive(sh, dxFp, dyFp, distSqFp) ==
    IF distSqFp >= FP_ONE THEN Turn(sh, dxFp, dyFp, fpSqrt(distSqFp))
    ELSE <<sh.dirX, sh.dirY>>

\* only turn if the target is more than 1 unit away
TurnIfFar(sh, dxFp, dyFp, distSqFp) ==
    IF distSqFp > FP_ONE THEN Turn(sh, dxFp, dyFp, fpSqrt(distSqFp))
    ELSE <<sh.dirX, sh.dirY>>

SteerBy(sh, dxFp, dyFp) == TurnIfFar(sh, dxFp, dyFp, LenSqFp(dxFp, dyFp))

\* the direction stored by the steering block for head record sh and a target
Steer(sh, target) ==
    SteerBy(sh, toFixed(MathRound(target[1])) - toFixed(sh.x),
                toFixed(MathRound(target[2])) - toFixed(sh.y))

\* the prevDir copy made after the steering block instead of before it
SetDirPrevAfter(sh, dir) ==
    [sh EXCEPT !.prevDirX = dir[1], !.prevDirY = dir[2], !.dirX = dir[1], !.dirY = dir[2]]

\* the head record after the prevDir copy and the steering block
SetDir(sh, dir) ==
    [sh EXCEPT !.prevDirX = sh.dirX, !.prevDirY = sh.dirY, !.dirX = dir[1], !.dirY = dir[2]]

SteerHead(sh, playerInput) ==
    SetDir(sh, IF playerInput.present /\ playerInput.target # <<>>
               THEN Steer(sh, playerInput.target)
               ELSE <<sh.dirX, sh.dirY>>)

\* the eligibility test with >= for >
IsBoostingAtFloor(boostPressed, length) == boostPressed /\ length >= MIN_BOOST_LENGTH

\* boostPressed && sh.length > MIN_BOOST_LENGTH
IsBoosting(boostPressed, length) == boostPressed /\ length > MIN_BOOST_LENGTH

\* the boost block keeping the counter running through a payment
BoostHeadKeepsCount(sh, isBoosting) ==
    IF isBoosting
    THEN IF sh.boostFrames + 1 >= BOOST_COST_FRAMES
         THEN [sh EXCEPT !.boosting = 1, !.length = @ - 1, !.boostFrames = @ + 1]
         ELSE [sh EXCEPT !.boosting = 1, !.boostFrames = @ + 1]
    ELSE [sh EXCEPT !.boosting = 0, !.boostFrames = 0]

\* the boost block keeping the counter through a release
BoostHeadKeepsCredit(sh, isBoosting) ==
    IF isBoosting
    THEN IF sh.boostFrames + 1 >= BOOST_COST_FRAMES
         THEN [sh EXCEPT !.boosting = 1, !.length = @ - 1, !.boostFrames = 0]
         ELSE [sh EXCEPT !.boosting = 1, !.boostFrames = @ + 1]
    ELSE [sh EXCEPT !.boosting = 0]

\* the boost block taking two segments per payment
BoostHeadDoublePay(sh, isBoosting) ==
    IF isBoosting
    THEN IF sh.boostFrames + 1 >= BOOST_COST_FRAMES
         THEN [sh EXCEPT !.boosting = 1, !.length = @ - 2, !.boostFrames = 0]
         ELSE [sh EXCEPT !.boosting = 1, !.boostFrames = @ + 1]
    ELSE [sh EXCEPT !.boosting = 0, !.boostFrames = 0]

\* the boost block leaving the boosting flag alone when boost is not held
BoostHeadKeepsFlag(sh, isBoosting) ==
    IF isBoosting
    THEN IF sh.boostFrames + 1 >= BOOST_COST_FRAMES
         THEN [sh EXCEPT !.boosting = 1, !.length = @ - 1, !.boostFrames = 0]
         ELSE [sh EXCEPT !.boosting = 1, !.boostFrames = @ + 1]
    ELSE [sh EXCEPT !.boostFrames = 0]

\* the boost block paying one frame late: > for >=
BoostHeadLatePay(sh, isBoosting) ==
    IF isBoosting
    THEN IF sh.boostFrames + 1 > BOOST_COST_FRAMES
         THEN [sh EXCEPT !.boosting = 1, !.length = @ - 1, !.boostFrames = 0]
         ELSE [sh EXCEPT !.boosting = 1, !.boostFrames = @ + 1]
    ELSE [sh EXCEPT !.boosting = 0, !.boostFrames = 0]

\* the boost block: boosting flag, frame counter and length of head record sh
BoostHead(sh, isBoosting) ==
    IF isBoosting
    THEN IF sh.boostFrames + 1 >= BOOST_COST_FRAMES
         THEN [sh EXCEPT !.boosting = 1, !.length = @ - 1, !.boostFrames = 0]
         ELSE [sh EXCEPT !.boosting = 1, !.boostFrames = @ + 1]
    ELSE [sh EXCEPT !.boosting = 0, !.boostFrames = 0]

\* the boundary test on the head's integer position and radius
OutOfBounds(posX, posY, radius) ==
    \/ posX - radius < 0
    \/ posX + radius > WORLD_WIDTH
    \/ posY - radius < 0
    \/ posY + radius > WORLD_HEIGHT

\* game.spawn('snake-segment', ...) followed by the owner and frame assignments
SpawnSegment(w, clientId, x, y, color) ==
    [w EXCEPT !.segs = w.segs @@ (w.nextEid :> NewSegment(clientId, x, y, color, w.frame)),
              !.nextEid = w.nextEid + 1]

\* head.setVelocity(Math.round(vxInt), Math.round(vyInt))
SetVelocity(sh, currentSpeed) ==
    [sh EXCEPT !.vx = RoundDiv(sh.dirX * currentSpeed * 60, DIR_SCALE),
               !.vy = RoundDiv(sh.dirY * currentSpeed * 60, DIR_SCALE)]

\* the head record written back, and the food a paid boost frame drops behind it
StoreHead(w, head, sh, paid) ==
    IF paid
    THEN SpawnFoodAt([w EXCEPT !.heads[head] = sh],
                     TruncDiv(sh.x * DIR_SCALE - sh.dirX * 30, DIR_SCALE),
                     TruncDiv(sh.y * DIR_SCALE - sh.dirY * 30, DIR_SCALE),
                     sh.color)
    ELSE [w EXCEPT !.heads[head] = sh]

\* the boundary check and the segment spawn for the head record sh
BoundaryAndSpawn(w, clientId, head, sh, ord) ==
    IF OutOfBounds(sh.x, sh.y, sh.radius)
    THEN killSnake(w, clientId, ord)
    ELSE IF w.frame - sh.lastSpawnFrame >= SEGMENT_SPAWN_INTERVAL
    THEN [SpawnSegment(w, clientId, sh.x, sh.y, sh.color)
             EXCEPT !.heads[head].lastSpawnFrame = w.frame]
    ELSE w

\* from the velocity on: sh is the head record after the boost block, paid tells
\* whether the block took a segment
MoveBoosted(w, clientId, head, sh, paid, ord) ==
    BoundaryAndSpawn(StoreHead(w, head, sh, paid), clientId, head, sh, ord)

\* the boost block and the velocity for the steered head record sh
MoveSteered(w, clientId, head, sh, isBoosting, ord) ==
    MoveBoosted(w, clientId, head,
                SetVelocity(BoostHead(sh, isBoosting),
                            IF isBoosting THEN BOOST_SPEED ELSE SPEED),
                BoostHead(sh, isBoosting).length < sh.length, ord)

\* the iteration from the boost test on, for the steered head record sh
MoveHead(w, clientId, head, sh, playerInput, ord) ==
    MoveSteered(w, clientId, head, sh,
                IsBoosting(playerInput.present /\ playerInput.boost, sh.length), ord)

\* one iteration of the loop over sortedPlayers
MoveOne(w, clientId, head, playerInput, ord) ==
    IF w.heads[head].destroyed THEN w
    ELSE MoveHead(w, clientId, head, SteerHead(w.heads[head], playerInput),
                  playerInput, ord)

\* the playerHeads map without the test of head.destroyed
RECURSIVE PlayerHeadsWithDestroyed(_, _, _)
PlayerHeadsWithDestroyed(w, allHeads, map) ==
    IF allHeads = <<>> THEN map
    ELSE LET head == Head(allHeads)
         IN  PlayerHeadsWithDestroyed(w, Tail(allHeads),
                                      [map EXCEPT ![w.heads[head].clientId] = head])

\* the playerHeads map: for each client id the last head of allHeads that is live
RECURSIVE PlayerHeads(_, _, _)
PlayerHeads(w, allHeads, map) ==
    IF allHeads = <<>> THEN map
    ELSE LET head == Head(allHeads)
         IN  IF w.heads[head].destroyed
             THEN PlayerHeads(w, Tail(allHeads), map)
             ELSE PlayerHeads(w, Tail(allHeads),
                              [map EXCEPT ![w.heads[head].clientId] = head])

\* the keys of playerHeads in the Map's order: the order of first insertion
RECURSIVE PlayerKeys(_, _, _)
PlayerKeys(w, allHeads, keys) ==
    IF allHeads = <<>> THEN keys
    ELSE LET head == Head(allHeads)
             c == w.heads[head].clientId
         IN  IF w.heads[head].destroyed \/ (\E i \in 1..Len(keys) : keys[i] = c)
             THEN PlayerKeys(w, Tail(allHeads), keys)
             ELSE PlayerKeys(w, Tail(allHeads), Append(keys, c))

RECURSIVE InsertByStr(_, _)
InsertByStr(c, s) ==
    IF s = <<>> THEN <<c>>
    ELSE IF compareStrings(getClientIdStr(c), getClientIdStr(Head(s))) < 0 THEN <<c>> \o s
    ELSE <<Head(s)>> \o InsertByStr(c, Tail(s))

\* the Map's entries left in insertion order
KeysAsInserted(s) == s

RECURSIVE SortByStr(_)
SortByStr(s) == IF s = <<>> THEN <<>> ELSE InsertByStr(Head(s), SortByStr(Tail(s)))

\* [...playerHeads.entries()].sort(by client-id string): <<client ids, map>>
SortedPlayers(w, hOrd) ==
    LET allHeads == SortByEid(Query(DOMAIN w.heads, hOrd))
    IN  <<SortByStr(PlayerKeys(w, allHeads, <<>>)),
          PlayerHeads(w, allHeads, [c \in Clients |-> 0])>>

RECURSIVE MoveAll(_, _, _, _, _)
MoveAll(w, players, playerHeads, inputs, sOrd) ==
    IF players = <<>> THEN w
    ELSE MoveAll(MoveOne(w, Head(players), playerHeads[Head(players)],
                         inputs[Head(players)], sOrd),
                 Tail(players), playerHeads, inputs, sOrd)

MovementSystem(w, inputs, hOrd, sOrd) ==
    LET sp == SortedPlayers(w, hOrd)
    IN  MoveAll(w, sp[1], sp[2], inputs, sOrd)

(***************************************************************************)
(* Tail cleanup, food spawning and size update systems                     *)
(***************************************************************************)
\* headMaxAge: client id -> oldest allowed spawn frame; Undefined where no live head
Undefined == -1000000

RECURSIVE HeadMaxAge(_, _, _)
HeadMaxAge(w, allHeads, map) ==
    IF allHeads = <<>> THEN map
    ELSE LET head == Head(allHeads)
             sh == w.heads[head]
         IN  IF sh.destroyed THEN HeadMaxAge(w, Tail(allHeads), map)
             ELSE HeadMaxAge(w, Tail(allHeads),
                     [map EXCEPT ![sh.clientId] =
                          w.frame - sh.length * SEGMENT_SPAWN_INTERVAL])

\* the pruning with the age test reversed: the newer segments go
RECURSIVE PruneSegsNewest(_, _, _)
PruneSegsNewest(segs, allSegments, headMaxAge) ==
    IF allSegments = <<>> THEN segs
    ELSE LET e == Head(allSegments)
             oldestAllowed == headMaxAge[segs[e].ownerId]
             next == IF ~segs[e].destroyed /\ oldestAllowed # Undefined
                        /\ segs[e].spawnFrame > oldestAllowed
                     THEN [segs EXCEPT ![e].destroyed = TRUE]
                     ELSE segs
         IN  PruneSegsNewest(next, Tail(allSegments), headMaxAge)

\* the pruning with <= for <: a segment exactly at the allowed age goes too
RECURSIVE PruneSegsInclusive(_, _, _)
PruneSegsInclusive(segs, allSegments, headMaxAge) ==
    IF allSegments = <<>> THEN segs
    ELSE LET e == Head(allSegments)
             oldestAllowed == headMaxAge[segs[e].ownerId]
             next == IF ~segs[e].destroyed /\ oldestAllowed # Undefined
                        /\ segs[e].spawnFrame <= oldestAllowed
                     THEN [segs EXCEPT ![e].destroyed = TRUE]
                     ELSE segs
         IN  PruneSegsInclusive(next, Tail(allSegments), headMaxAge)

RECURSIVE PruneSegs(_, _, _)
PruneSegs(segs, allSegments, headMaxAge) ==
    IF allSegments = <<>> THEN segs
    ELSE LET e == Head(allSegments)
             oldestAllowed == headMaxAge[segs[e].ownerId]
             next == IF ~segs[e].destroyed /\ oldestAllowed # Undefined
                        /\ segs[e].spawnFrame < oldestAllowed
                     THEN [segs EXCEPT ![e].destroyed = TRUE]
                     ELSE segs
         IN  PruneSegs(next, Tail(allSegments), headMaxAge)

TailCleanupSystem(w, hOrd, sOrd) ==
    LET allHeads == SortByEid(Query(DOMAIN w.heads, hOrd))
        headMaxAge == HeadMaxAge(w, allHeads, [c \in Clients |-> Undefined])
        allSegments == SortByEid(Query(DOMAIN w.segs, sOrd))
    IN  [w EXCEPT !.segs = PruneSegs(w.segs, allSegments, headMaxAge)]

\* draws are thousandths of Math.random(): <<chance, colour, x, y>>
FoodSpawnSystem(w, draws) ==
    IF Cardinality(LiveFoods(w)) < MAX_FOOD /\ draws[1] < FOOD_SPAWN_CHANCE
    THEN spawnFood(w, draws[2], draws[3], draws[4])
    ELSE w

\* getSizeMultiplier without the cap
getSizeMultiplierUncapped(length) ==
    100 + (length - INITIAL_LENGTH) * 2

getSizeMultiplier(length) ==
    LET growth == 100 + (length - INITIAL_LENGTH) * 2
        maxScaled == 300
    IN  IF growth < maxScaled THEN growth ELSE maxScaled

\* ownerLengths: client id -> scaled size multiplier; 0 where no live head
RECURSIVE OwnerLengths(_, _, _)
OwnerLengths(w, allHeads, map) ==
    IF allHeads = <<>> THEN map
    ELSE LET head == Head(allHeads)
             sh == w.heads[head]
         IN  IF sh.destroyed THEN OwnerLengths(w, Tail(allHeads), map)
             ELSE OwnerLengths(w, Tail(allHeads),
                     [map EXCEPT ![sh.clientId] = getSizeMultiplier(sh.length)])

SizeUpdateSystem(w, hOrd, sOrd) ==
    LET allHeads == SortByEid(Query(DOMAIN w.heads, hOrd))
        ownerLengths == OwnerLengths(w, allHeads, [c \in Clients |-> 0])
        allSegments == SortByEid(Query(DOMAIN w.segs, sOrd))
        SegMult(e) == IF ownerLengths[w.segs[e].ownerId] # 0
                      THEN ownerLengths[w.segs[e].ownerId] ELSE 100
    IN  [w EXCEPT
           !.heads = [e \in DOMAIN w.heads |->
              IF w.heads[e].destroyed THEN w.heads[e]
              ELSE [w.heads[e] EXCEPT !.radius =
                      TruncDiv(BASE_HEAD_RADIUS * getSizeMultiplier(w.heads[e].length), 100)]],
           !.segs = [e \in DOMAIN w.segs |->
              IF w.segs[e].destroyed \/ ~(\E i \in 1..Len(allSegments) : allSegments[i] = e)
              THEN w.segs[e]
              ELSE [w.segs[e] EXCEPT !.radius =
                      TruncDiv(BASE_SEGMENT_RADIUS * SegMult(e), 100)]]]

(***************************************************************************)
(* The engine between two frames                                           *)
(***************************************************************************)
\* the physics plugin integrates the requested velocity (units per second) of
\* every live head over one frame of 1/60 s
PhysicsStep(w) ==
    [w EXCEPT !.heads = [e \in DOMAIN w.heads |->
        IF w.heads[e].destroyed THEN w.heads[e]
        ELSE [w.heads[e] EXCEPT !.x = @ + RoundDiv(w.heads[e].vx, 60),
                                !.y = @ + RoundDiv(w.heads[e].vy, 60)]]]

\* f on S, held as a table of its values (f @@ <<>> is f)
Restrict(f, S) == [e \in S |-> f[e]] @@ <<>>

\* the store drops the destroyed records and the frame counter advances; the
\* client index too is held as a table of its values
EndFrame(w) ==
    [w EXCEPT !.heads = Restrict(w.heads, LiveHeads(w)),
              !.segs = Restrict(w.segs, LiveSegs(w)),
              !.foods = Restrict(w.foods, LiveFoods(w)),
              !.byClient = [c \in Clients |->
                 IF w.byClient[c] # 0 /\ w.heads[w.byClient[c]].destroyed
                 THEN 0 ELSE w.byClient[c]] @@ <<>>,
              !.frame = w.frame + 1]

(***************************************************************************)
(* Environments: the inputs the engine may hand the callbacks              *)
(***************************************************************************)
\* onRoomCreate: FOOD_COUNT calls of spawnFood; the i-th call draws from i
onRoomCreate(w) ==
    [w EXCEPT !.foods = w.foods @@
                 [e \in w.nextEid .. (w.nextEid + FOOD_COUNT - 1) |->
                    LET i == e - w.nextEid + 1
                    IN  NewFood(50 + (((i * 377) % 1000) * (WORLD_WIDTH - 100)) \div 1000,
                                50 + (((i * 611) % 1000) * (WORLD_HEIGHT - 100)) \div 1000,
                                (((i * 83) % 1000) * NUM_COLORS) \div 1000)],
              !.nextEid = w.nextEid + FOOD_COUNT]

\* the head the movement system steers for a client (0 if none)
ClientHead(w, c) == SortedPlayers(w, "asc")[2][c]

\* an input of a given shape <<offset of the target from the head in half units
\* (<<>> for no target), boost>> for the head of client c
InputOf(w, c, shape) ==
    LET sh == w.heads[ClientHead(w, c)]
    IN  [present |-> TRUE,
         target |-> IF shape[1] = <<>> THEN <<>>
                    ELSE <<2 * sh.x + shape[1][1], 2 * sh.y + shape[1][2]>>,
         boost |-> shape[2]]

\* inputs a client may send: none at all, or one of the environment's shapes
InputsOf(w, c, env) ==
    IF ClientHead(w, c) = 0 THEN {NoInput}
    ELSE (IF env.absent THEN {NoInput} ELSE {})
         \cup {InputOf(w, c, shape) : shape \in env.shapes}

\* one whole frame without collisions and without a periodic food spawn
FrameStep(w, inputs) ==
    EndFrame(PhysicsStep(SizeUpdateSystem(
        FoodSpawnSystem(TailCleanupSystem(MovementSystem(w, inputs, "asc", "asc"),
                                          "asc", "asc"),
                        <<999, 0, 0, 0>>),
        "asc", "asc")))

\* one frame in which client c holds boost and steers straight ahead
BoostStep(w, c) ==
    LET sh == w.heads[ClientHead(w, c)]
        ahead == <<sh.dirX \div 5, sh.dirY \div 5>>
    IN  FrameStep(w, [d \in Clients |->
                        IF d = c THEN InputOf(w, c, <<ahead, TRUE>>) ELSE NoInput])

\* n such frames: the first half of them, then the rest
RECURSIVE BoostFor(_, _, _)
BoostFor(w, c, n) ==
    IF n = 0 THEN w
    ELSE IF n = 1 THEN BoostStep(w, c)
    ELSE LET half == BoostFor(w, c, n \div 2)
         IN  IF half.frame > w.frame THEN BoostFor(half, c, n - n \div 2) ELSE w

\* one frame in which client c steers toward a target at offset off from its head
\* (half units) and does not boost
SteerStep(w, c, off) ==
    FrameStep(w, [d \in Clients |->
                    IF d = c THEN InputOf(w, c, <<off, FALSE>>) ELSE NoInput])

\* n such frames: the first half of them, then the rest
RECURSIVE SteerFor(_, _, _, _)
SteerFor(w, c, off, n) ==
    IF n = 0 THEN w
    ELSE IF n = 1 THEN SteerStep(w, c, off)
    ELSE LET half == SteerFor(w, c, off, n \div 2)
         IN  IF half.frame > w.frame THEN SteerFor(half, c, off, n - n \div 2) ELSE w

\* a room whose first food records have been eaten by a snake that has left:
\* onRoomCreate, one client's connect, its pickups, its disconnect, one frame
Room ==
    LET created == onRoomCreate(EmptyWorld)
        joined == spawnSnake(created, 1, 500, 500, 500)
        gone == FOOD_COUNT - MaxRoomFood
        eaten == [joined EXCEPT
                    !.foods = [f \in DOMAIN joined.foods |->
                                 IF f <= gone
                                 THEN [joined.foods[f] EXCEPT !.destroyed = TRUE]
                                 ELSE joined.foods[f]],
                    !.heads[created.nextEid].length = @ + gone]
    IN  EndFrame(killSnake(eaten, 1, "asc"))

\* the room after client c has joined at the draws given and boosted for n frames
Played(c, rX, rY, n) == BoostFor(spawnSnake(Room, c, 500, rX, rY), c, n)

Killed(w, w2) == {e \in DOMAIN w.heads : ~w.heads[e].destroyed /\ w2.heads[e].destroyed}

NoRun == [k |-> 0, len0 |-> 0, food |-> 0]

\* what the latest step was: the callback, its arguments, the heads it destroyed
\* and the clients whose boost input was held
Last(op, client, head, other, killed, boost) ==
    [op |-> op, client |-> client, head |-> head, other |-> other,
     killed |-> killed, boost |-> boost]

\* the records the physics plugin may report overlaps for in one resolution pass:
\* the heads live when the pass starts, each owner's newest segment, the newest food
NoOverlaps == [heads |-> {}, segs |-> {}, foods |-> {}]

Overlaps(w) ==
    [heads |-> LiveHeads(w),
     segs |-> {s \in LiveSegs(w) : \A t \in LiveSegs(w) :
                  w.segs[t].ownerId = w.segs[s].ownerId => t <= s},
     foods |-> {f \in LiveFoods(w) : \A g \in LiveFoods(w) : f >= g}]

NoneUsed == [frames |-> 0, steps |-> 0]

(***************************************************************************)
(* Actions                                                                 *)
(***************************************************************************)
\* the second instance takes the same step when the environment runs one
Twin(env, next) == replica' = IF env.twin THEN next ELSE replica

\* onConnect(clientId): spawnSnake
OnConnect(c, env) ==
    /\ pc = "movement"
    /\ used.steps < env.steps
    /\ \E rColor \in env.draws, rX \in env.draws, rY \in env.draws :
          /\ world' = spawnSnake(world, c, rColor, rX, rY)
          /\ Twin(env, spawnSnake(replica, c, rColor, rX, rY))
    /\ connected' = connected \cup {c}
    /\ used' = [used EXCEPT !.steps = @ + 1]
    /\ run' = [run EXCEPT ![c] = NoRun]
    /\ last' = Last("connect", c, world.nextEid, 0, {}, {})
    /\ UNCHANGED <<pc, events>>

\* onDisconnect(clientId): killSnake
OnDisconnect(c, env) ==
    /\ pc = "movement"
    /\ used.steps < env.steps
    /\ \E o1 \in StoreOrders : \E o2 \in {OtherOrder(o1)} :
          /\ world' = killSnake(world, c, o1)
          /\ Twin(env, killSnake(replica, c, o2))
    /\ connected' = connected \ {c}
    /\ run' = [run EXCEPT ![c] = NoRun]
    /\ last' = Last("disconnect", c, getEntityByClientId(world, c), 0,
                    Killed(world, world'), {})
    /\ used' = [used EXCEPT !.steps = @ + 1]
    /\ UNCHANGED <<pc, events>>

\* the bookkeeping of one client's current run of boosting frames
RunAfter(r, w, w2, c, input) ==
    LET head == ClientHead(w, c)
    IN  IF head = 0 THEN NoRun
        ELSE IF w2.heads[head].destroyed \/ w2.heads[head].boosting = 0 THEN NoRun
        ELSE LET alone == MoveOne(w, c, head, input, "asc")
                 spawned == Cardinality(DOMAIN alone.foods) - Cardinality(DOMAIN w.foods)
             IN  IF r.k > 0 THEN [r EXCEPT !.k = @ + 1, !.food = @ + spawned]
                 ELSE IF w.heads[head].boostFrames = 0
                 THEN [k |-> 1, len0 |-> w.heads[head].length, food |-> spawned]
                 ELSE NoRun

\* a frame in which some client with a head does not hold boost
Idle(w, inputs) == \E c \in Clients : ClientHead(w, c) # 0 /\ ~inputs[c].boost

Movement(env) ==
    /\ pc = "movement"
    /\ \E inputs \in [Clients -> UNION {InputsOf(world, c, env) : c \in Clients}] :
          /\ \A c \in Clients : inputs[c] \in InputsOf(world, c, env)
          /\ \E o1 \in StoreOrders : \E o2 \in {OtherOrder(o1)} :
                /\ world' = MovementSystem(world, inputs, o1, o1)
                /\ Twin(env, MovementSystem(replica, inputs, o2, o2))
          /\ run' = [c \in Clients |-> RunAfter(run[c], world, world', c, inputs[c])]
          /\ last' = Last("movement", 0, 0, 0, Killed(world, world'),
                          {c \in Clients : inputs[c].present /\ inputs[c].boost})
          /\ used' = IF Idle(world, inputs) THEN [used EXCEPT !.steps = @ + 1] ELSE used
          /\ used'.steps <= env.steps
    /\ pc' = "cleanup"
    /\ UNCHANGED <<events, connected>>

TailCleanup(env) ==
    /\ pc = "cleanup"
    /\ \E o1 \in StoreOrders : \E o2 \in {OtherOrder(o1)} :
          /\ world' = TailCleanupSystem(world, o1, o1)
          /\ Twin(env, TailCleanupSystem(replica, o2, o2))
    /\ pc' = "food"
    /\ last' = Last("cleanup", 0, 0, 0, {}, {})
    /\ UNCHANGED <<events, used, connected, run>>

FoodSpawn(env) ==
    /\ pc = "food"
    /\ \E chance \in env.chances, rColor \in env.draws, rX \in env.draws, rY \in env.draws :
          /\ world' = FoodSpawnSystem(world, <<chance, rColor, rX, rY>>)
          /\ Twin(env, FoodSpawnSystem(replica, <<chance, rColor, rX, rY>>))
    /\ pc' = "size"
    /\ last' = Last("food", 0, 0, 0, {}, {})
    /\ UNCHANGED <<events, used, connected, run>>

SizeUpdate(env) ==
    /\ pc = "size"
    /\ \E o1 \in StoreOrders : \E o2 \in {OtherOrder(o1)} :
          /\ world' = SizeUpdateSystem(world, o1, o1)
          /\ Twin(env, SizeUpdateSystem(replica, o2, o2))
    /\ pc' = "physics"
    /\ last' = Last("size", 0, 0, 0, {}, {})
    /\ UNCHANGED <<events, used, connected, run>>

\* the physics plugin moves the heads; its collision callbacks follow
Physics(env) ==
    /\ pc = "physics"
    /\ world' = PhysicsStep(world)
    /\ Twin(env, PhysicsStep(replica))
    /\ pc' = "collide"
    /\ events' = Overlaps(world)
    /\ last' = Last("physics", 0, 0, 0, {}, {})
    /\ UNCHANGED <<used, connected, run>>

HeadSegmentCollision(env) ==
    /\ pc = "collide"
    /\ used.steps < env.steps
    /\ \E head \in events.heads, segment \in events.segs :
          /\ \E o1 \in StoreOrders : \E o2 \in {OtherOrder(o1)} :
                /\ world' = OnHeadSegment(world, head, segment, o1)
                /\ Twin(env, OnHeadSegment(replica, head, segment, o2))
          /\ last' = Last("headSegment", world.heads[head].clientId, head, segment,
                          Killed(world, world'), {})
          /\ run' = [c \in Clients |->
                       IF \E e \in Killed(world, world') : world.heads[e].clientId = c
                       THEN NoRun ELSE run[c]]
    /\ used' = [used EXCEPT !.steps = @ + 1]
    /\ UNCHANGED <<pc, events, connected>>

HeadFoodCollision(env) ==
    /\ pc = "collide"
    /\ used.steps < env.steps
    /\ \E head \in events.heads, food \in events.foods :
          /\ world' = OnHeadFood(world, head, food)
          /\ Twin(env, OnHeadFood(replica, head, food))
          /\ last' = Last("headFood", world.heads[head].clientId, head, food, {}, {})
          /\ run' = [run EXCEPT ![world.heads[head].clientId] =
                        IF world.foods[food].destroyed THEN @ ELSE NoRun]
    /\ used' = [used EXCEPT !.steps = @ + 1]
    /\ UNCHANGED <<pc, events, connected>>

NextFrame(env) ==
    /\ pc = "collide"
    /\ used.frames < env.frames
    /\ world' = EndFrame(world)
    /\ Twin(env, EndFrame(replica))
    /\ pc' = "movement"
    /\ used' = [used EXCEPT !.frames = @ + 1]
    /\ events' = NoOverlaps
    /\ last' = Last("frame", 0, 0, 0, {}, {})
    /\ UNCHANGED <<connected, run>>

\* the state an environment starts from: one of its start worlds
Start(starts) ==
    /\ \E st \in starts :
          /\ world = st.world
          /\ replica = st.world
          /\ connected = st.connected
    /\ pc = "movement"
    /\ events = NoOverlaps
    /\ used = NoneUsed
    /\ run = [c \in Clients |-> NoRun]
    /\ last = Last("init", 0, 0, 0, {}, {})

(***************************************************************************)
(* Spec: connects, disconnects, collisions and boundary deaths              *)
(***************************************************************************)
Env ==
    [twin |-> FALSE, absent |-> FALSE, shapes |-> {<<<<0, 200>>, TRUE>>},
     draws |-> {500}, chances |-> {500}, frames |-> MaxFrames, steps |-> MaxSteps]

\* the room after clients 1 and 2 have joined two frames apart and played
Duel == BoostFor(spawnSnake(Played(1, 500, 500, DuelFrames), 2, 0, 0, 0), 2, DuelFrames)

\* the fresh room, the room after client 1 has boosted towards the right wall,
\* and the room with two snakes
Starts ==
    {[world |-> Room, connected |-> {}],
     [world |-> Played(1, 999, 500, EdgeFrames), connected |-> {1}],
     [world |-> Duel, connected |-> {1, 2}]}

Init == Start(Starts)

\* onConnect has no guard: a connect may arrive for a client that holds a head
Connect == \E c \in Clients : OnConnect(c, Env)

Disconnect == \E c \in connected : OnDisconnect(c, Env)

Next ==
    \/ Connect
    \/ Disconnect
    \/ Movement(Env)
    \/ TailCleanup(Env)
    \/ FoodSpawn(Env)
    \/ SizeUpdate(Env)
    \/ Physics(Env)
    \/ HeadSegmentCollision(Env)
    \/ HeadFoodCollision(Env)
    \/ NextFrame(Env)

Spec == Init /\ [][Next]_vars

(***************************************************************************)
(* SpecBoost: one snake, boost held or released, food pickups, many frames *)
(***************************************************************************)
EnvBoost ==
    [twin |-> FALSE, absent |-> FALSE, shapes |-> {<<<<>>, TRUE>>, <<<<>>, FALSE>>},
     draws |-> {500}, chances |-> {500}, frames |-> MaxBoostFrames, steps |-> MaxBreaks]

\* client 1 just joined, and client 1 one boost payment above the length floor
StartsBoost ==
    {[world |-> Played(1, 500, 500, 0), connected |-> {1}],
     [world |-> Played(1, 500, 500, FloorFrames), connected |-> {1}]}

InitBoost == Start(StartsBoost)

NextBoost ==
    \/ Movement(EnvBoost)
    \/ TailCleanup(EnvBoost)
    \/ FoodSpawn(EnvBoost)
    \/ SizeUpdate(EnvBoost)
    \/ Physics(EnvBoost)
    \/ HeadFoodCollision(EnvBoost)
    \/ NextFrame(EnvBoost)

SpecBoost == InitBoost /\ [][NextBoost]_vars

(***************************************************************************)
(* SpecTwin: two instances on the same inputs; a connect may arrive for a  *)
(* client that is connected already                                        *)
(***************************************************************************)
EnvTwin ==
    [twin |-> TRUE, absent |-> FALSE, shapes |-> {<<<<0, 200>>, TRUE>>},
     draws |-> {500}, chances |-> {500}, frames |-> MaxFrames, steps |-> MaxSteps]

\* the room with two snakes that have joined at the same place
DuelNear == BoostFor(spawnSnake(Played(1, 500, 500, DuelFrames), 2, 0, 500, 500), 2, DuelFrames)

StartsTwin ==
    {[world |-> Room, connected |-> {}],
     [world |-> DuelNear, connected |-> {1, 2}]}

InitTwin == Start(StartsTwin)

ConnectAny == \E c \in Clients : OnConnect(c, EnvTwin)

DisconnectTwin == \E c \in connected : OnDisconnect(c, EnvTwin)

NextTwin ==
    \/ ConnectAny
    \/ DisconnectTwin
    \/ Movement(EnvTwin)
    \/ TailCleanup(EnvTwin)
    \/ FoodSpawn(EnvTwin)
    \/ SizeUpdate(EnvTwin)
    \/ Physics(EnvTwin)
    \/ HeadSegmentCollision(EnvTwin)
    \/ HeadFoodCollision(EnvTwin)
    \/ NextFrame(EnvTwin)

SpecTwin == InitTwin /\ [][NextTwin]_vars

(***************************************************************************)
(* SpecSteer: one snake steering toward targets all around it              *)
(***************************************************************************)
\* offsets of the target from the head, in half units
SteerTargets ==
    {<<200, 0>>, <<0, 200>>, <<-200, 0>>, <<0, -200>>,
     <<141, -141>>, <<-300, 7>>, <<3, 2>>, <<-61, 333>>}

EnvSteer ==
    [twin |-> FALSE, absent |-> FALSE, shapes |-> {<<off, FALSE>> : off \in SteerTargets},
     draws |-> {500}, chances |-> {500},
     frames |-> MaxSteerFrames, steps |-> MaxSteerFrames + 1]

\* client 1 just joined, and client 1 after turning for TurnFrames frames
StartsSteer ==
    {[world |-> Played(1, 500, 500, 0), connected |-> {1}],
     [world |-> SteerFor(Played(1, 500, 500, 0), 1, <<-300, 7>>, TurnFrames),
      connected |-> {1}]}

InitSteer == Start(StartsSteer)

NextSteer ==
    \/ Movement(EnvSteer)
    \/ TailCleanup(EnvSteer)
    \/ FoodSpawn(EnvSteer)
    \/ SizeUpdate(EnvSteer)
    \/ Physics(EnvSteer)
    \/ NextFrame(EnvSteer)

SpecSteer == InitSteer /\ [][NextSteer]_vars

(***************************************************************************)
(* Properties of the collision handlers and of killSnake (Spec)            *)
(***************************************************************************)
SameDestroyed(f, g) == \A e \in DOMAIN f : g[e].destroyed = f[e].destroyed

SegsOf(w, c) == {s \in DOMAIN w.segs : w.segs[s].ownerId = c}

\* C2: a head-vs-segment event whose segment is owned by the head's own client
\* destroys no head and no segment, however many such events a frame delivers
NoSelfKill ==
    [][(/\ last'.op = "headSegment"
        /\ world.segs[last'.other].ownerId = world.heads[last'.head].clientId)
       => /\ SameDestroyed(world.heads, world'.heads)
          /\ SameDestroyed(world.segs, world'.segs)]_vars

\* a second event of the frame hit a live head with a live segment of its own
SelfHitDelivered ==
    /\ last.op = "headSegment"
    /\ used.steps >= 2
    /\ last.head \in LiveHeads(world)
    /\ last.other \in LiveSegs(world)
    /\ world.segs[last.other].ownerId = world.heads[last.head].clientId

\* what killSnake(c) does to a world in which c's head is live
KillEffect(w, w2, c) ==
    /\ w2.heads[getEntityByClientId(w, c)].destroyed
    /\ \A e \in DOMAIN w.heads \ {getEntityByClientId(w, c)} :
          w2.heads[e].destroyed = w.heads[e].destroyed
    /\ \A s \in DOMAIN w.segs :
          w2.segs[s].destroyed = (w.segs[s].destroyed \/ w.segs[s].ownerId = c)

HasLiveHead(w, c) ==
    getEntityByClientId(w, c) # 0 /\ ~w.heads[getEntityByClientId(w, c)].destroyed

\* C3: killSnake(c), on a disconnect, a foreign-segment hit or a boundary violation,
\* destroys c's head and all and only the segments owned by c, and no other head
DeathCascade ==
    [][/\ (last'.op = "disconnect" /\ HasLiveHead(world, last'.client))
            => KillEffect(world, world', last'.client)
       /\ (last'.op = "headSegment" /\ Killed(world, world') # {})
            => KillEffect(world, world', last'.client)
       /\ last'.op = "movement"
            => /\ \A e \in Killed(world, world') :
                     getEntityByClientId(world, world.heads[e].clientId) = e
               /\ \A s \in DOMAIN world.segs :
                     world'.segs[s].destroyed =
                        (\/ world.segs[s].destroyed
                         \/ \E e \in Killed(world, world') :
                               world.heads[e].clientId = world.segs[s].ownerId)]_vars

\* a disconnect killed a snake with segments while another snake's segments stayed
CascadeDone ==
    /\ last.op = "disconnect"
    /\ last.killed # {}
    /\ \E s \in SegsOf(world, last.client) : world.segs[s].destroyed
    /\ \E s \in LiveSegs(world) : world.segs[s].ownerId # last.client

\* C4: a head-vs-segment event for a live head A and a live segment of another
\* client B destroys A's head and all of A's segments in that call and changes
\* no other head and no segment of another owner
ForeignSegmentKills ==
    [][(/\ last'.op = "headSegment"
        /\ ~world.heads[last'.head].destroyed
        /\ ~world.segs[last'.other].destroyed
        /\ world.segs[last'.other].ownerId # world.heads[last'.head].clientId)
       => /\ world'.heads[last'.head].destroyed
          /\ \A s \in SegsOf(world, world.heads[last'.head].clientId) :
                world'.segs[s].destroyed
          /\ \A e \in DOMAIN world.heads \ {last'.head} : world'.heads[e] = world.heads[e]
          /\ \A s \in DOMAIN world.segs :
                world.segs[s].ownerId # world.heads[last'.head].clientId
                   => world'.segs[s] = world.segs[s]]_vars

\* A died on a live segment of B; A's segments went with it, B's head lives
ForeignHitDone ==
    /\ last.op = "headSegment"
    /\ last.killed = {last.head}
    /\ last.other \in LiveSegs(world)
    /\ HasLiveHead(world, world.segs[last.other].ownerId)
    /\ \E s \in SegsOf(world, last.client) : world.segs[s].destroyed

\* C5: a head-vs-food event for a live head and a live food record adds exactly 1
\* to that head's length, destroys the food and changes nothing else of any head
\* or segment
FoodPickup ==
    [][(/\ last'.op = "headFood"
        /\ ~world.heads[last'.head].destroyed
        /\ ~world.foods[last'.other].destroyed)
       => /\ world'.heads = [world.heads EXCEPT ![last'.head].length = @ + 1]
          /\ world'.foods[last'.other].destroyed
          /\ world'.segs = world.segs]_vars

\* a live head has eaten a food record while another head was live
FoodEaten ==
    /\ last.op = "headFood"
    /\ last.head \in LiveHeads(world)
    /\ world.foods[last.other].destroyed
    /\ used.steps = 1
    /\ \E e \in LiveHeads(world) : e # last.head

\* C6: a live head that is outside the arena by its radius when the movement pass
\* runs is destroyed by that pass with every segment it owns, and no segment of
\* that owner is spawned in the frame
BoundaryDeath ==
    [][last'.op = "movement"
       => \A e \in LiveHeads(world) :
             (\/ world.heads[e].x - world.heads[e].radius < 0
              \/ world.heads[e].x + world.heads[e].radius > 4000
              \/ world.heads[e].y - world.heads[e].radius < 0
              \/ world.heads[e].y + world.heads[e].radius > 4000)
             => /\ world'.heads[e].destroyed
                /\ \A s \in SegsOf(world', world.heads[e].clientId) :
                      /\ world'.segs[s].destroyed
                      /\ world'.segs[s].spawnFrame # world.frame]_vars

\* the movement pass killed a head at the wall together with its segments
DiedAtWall ==
    /\ last.op = "movement"
    /\ \E e \in last.killed :
          /\ world.heads[e].x + world.heads[e].radius > WORLD_WIDTH
          /\ \E s \in SegsOf(world, world.heads[e].clientId) : world.segs[s].destroyed

\* C9: at every frame boundary each live segment is owned by a client with a live head
NoOrphanSegments ==
    pc = "movement"
       => \A s \in LiveSegs(world) :
             \E e \in LiveHeads(world) : world.heads[e].clientId = world.segs[s].ownerId

\* a frame boundary after a death: a connected client has no head, segments live on
BoundaryAfterDeath ==
    /\ pc = "movement"
    /\ last.op = "frame"
    /\ LiveSegs(world) # {}
    /\ \E c \in connected : ~HasLiveHead(world, c)

(***************************************************************************)
(* Properties of the boost block (SpecBoost)                               *)
(***************************************************************************)
\* C7: every live head's length is at least MIN_BOOST_LENGTH, whatever the frames,
\* boost inputs and food pickups; the boost cost is never taken from a length of 10
LengthFloor == \A e \in LiveHeads(world) : world.heads[e].length >= MIN_BOOST_LENGTH

\* a head at the floor whose client held boost in the pass and was refused
RefusedAtFloor ==
    /\ last.op = "movement"
    /\ \E e \in LiveHeads(world) :
          /\ world.heads[e].length = MIN_BOOST_LENGTH
          /\ world.heads[e].boosting = 0
          /\ world.heads[e].clientId \in last.boost

\* C8: a head that started boosting with counter 0 and length L and has boosted for
\* k consecutive frames without a pickup has length L - k div BOOST_COST_FRAMES, has
\* spawned k div BOOST_COST_FRAMES food records and has counter k mod BOOST_COST_FRAMES
PeriodicBoostCost ==
    \A c \in Clients :
       (run[c].k > 0 /\ ClientHead(world, c) # 0)
       => LET sh == world.heads[ClientHead(world, c)]
          IN  /\ sh.length = run[c].len0 - run[c].k \div BOOST_COST_FRAMES
              /\ run[c].food = run[c].k \div BOOST_COST_FRAMES
              /\ sh.boostFrames = run[c].k % BOOST_COST_FRAMES

\* length 15, boost held for 10 frames: length 14, one food, counter 0
TenFramesBoosted ==
    \E c \in Clients :
       /\ run[c] = [k |-> 10, len0 |-> 15, food |-> 1]
       /\ ClientHead(world, c) # 0
       /\ world.heads[ClientHead(world, c)].length = 14
       /\ world.heads[ClientHead(world, c)].boostFrames = 0

(***************************************************************************)
(* Properties of two instances and of repeated connects (SpecTwin)         *)
(***************************************************************************)
\* what the two instances must agree on: per live head its client, direction,
\* length and boost counter, and the set of live segments as (ownerId, spawnFrame)
Observed(w) ==
    [heads |-> [e \in LiveHeads(w) |->
                  <<w.heads[e].clientId, w.heads[e].dirX, w.heads[e].dirY,
                    w.heads[e].length, w.heads[e].boostFrames>>],
     segs |-> {<<w.segs[s].ownerId, w.segs[s].spawnFrame>> : s \in LiveSegs(w)}]

\* C1: two instances given the same inputs, draws and collision events agree on
\* directions, lengths, boost counters and segment sets after every step, though
\* their stores iterate in different orders
Determinism == Observed(world) = Observed(replica)

\* both instances have steered and boosted two heads and hold segments
TwoInstancesPlayed ==
    /\ last.op = "movement"
    /\ Cardinality(LiveHeads(world)) >= 2
    /\ LiveSegs(replica) # {}
    /\ \E e \in LiveHeads(replica) : replica.heads[e].dirY # 0

\* C10: at most one live head per client id
OneHeadPerClient ==
    \A c \in Clients :
       Cardinality({e \in LiveHeads(world) : world.heads[e].clientId = c}) <= 1

(***************************************************************************)
(* Properties of the steering block (SpecSteer)                            *)
(***************************************************************************)
\* C11: the stored direction of every live head has magnitude within 2 of DIR_SCALE
\* after every steering step, from the initial direction (DIR_SCALE, 0) on
UnitDirection ==
    \A e \in LiveHeads(world) :
       /\ world.heads[e].dirX * world.heads[e].dirX
             + world.heads[e].dirY * world.heads[e].dirY >= 998 * 998
       /\ world.heads[e].dirX * world.heads[e].dirX
             + world.heads[e].dirY * world.heads[e].dirY <= 1002 * 1002

\* a steering step stored a direction off both axes whose magnitude is not exact
TurnedAndRounded ==
    /\ last.op = "movement"
    /\ \E e \in LiveHeads(world) :
          /\ world.heads[e].dirX # world.heads[e].prevDirX
          /\ world.heads[e].dirY # 0
          /\ world.heads[e].dirX * world.heads[e].dirX
                + world.heads[e].dirY * world.heads[e].dirY # DIR_SCALE * DIR_SCALE

(***************************************************************************)
(* Properties of the tail cleanup (SpecBoost)                              *)
(***************************************************************************)
\* the live segments of client c after the tail-cleanup pass, had its head length len
KeptAt(w, c, len) ==
    Cardinality(SegsOf(w, c) \cap
                LiveSegs(TailCleanupSystem([w EXCEPT !.heads[ClientHead(w, c)].length = len],
                                           "asc", "asc")))

\* C12: for the frame and the segments of any reachable state, the tail-cleanup pass
\* leaves an actor no more segments at length L1 than at length L2 when L1 <= L2
SegmentsMonotone ==
    \A c \in Clients :
       ClientHead(world, c) # 0
       => \A len1 \in 0..MaxPruneLength : \A len2 \in len1..MaxPruneLength :
             KeptAt(world, c, len1) <= KeptAt(world, c, len2)

\* the pass has just pruned, and a shorter length would prune more
PrunedByLength ==
    /\ last.op = "cleanup"
    /\ \E s \in DOMAIN world.segs : world.segs[s].destroyed
    /\ \E c \in Clients :
          /\ ClientHead(world, c) # 0
          /\ KeptAt(world, c, 5) < KeptAt(world, c, world.heads[ClientHead(world, c)].length)
          /\ KeptAt(world, c, 5) > 0

(***************************************************************************)
(* More properties of the boost block (SpecBoost)                          *)
(***************************************************************************)
\* C13 as stated: every live head's length is at least INITIAL_LENGTH
LengthAtLeastInitial ==
    \A e \in LiveHeads(world) : world.heads[e].length >= INITIAL_LENGTH

\* C13: every live head's length is a natural number that is at least
\* MIN_BOOST_LENGTH; boost payments take it below INITIAL_LENGTH
LengthAtLeastMinBoost ==
    \A e \in LiveHeads(world) :
       /\ world.heads[e].length \in Nat
       /\ world.heads[e].length >= MIN_BOOST_LENGTH

\* a movement pass has taken a boost payment from a head of initial length
PaidBelowInitial ==
    /\ last.op = "movement"
    /\ \E e \in LiveHeads(world) :
          /\ world.heads[e].length = INITIAL_LENGTH - 1
          /\ world.heads[e].clientId \in last.boost
          /\ run[world.heads[e].clientId].len0 = INITIAL_LENGTH

\* C14: at the end of every movement pass every live head's boostFrames is
\* in 0..BOOST_COST_FRAMES-1, and it is 0 for a head whose length the pass
\* has decremented
BoostCounterRange ==
    [][last'.op = "movement"
         => \A e \in LiveHeads(world') :
               /\ world'.heads[e].boostFrames \in 0..(BOOST_COST_FRAMES - 1)
               /\ (e \in LiveHeads(world) /\ world'.heads[e].length < world.heads[e].length)
                     => world'.heads[e].boostFrames = 0]_vars

\* a movement pass has taken the payment that brings a head to the floor,
\* and its counter is back at 0
CounterResetByPayment ==
    /\ last.op = "movement"
    /\ \E e \in LiveHeads(world) :
          /\ world.heads[e].length = MIN_BOOST_LENGTH
          /\ world.heads[e].boosting = 1
          /\ world.heads[e].boostFrames = 0

(***************************************************************************)
(* SpecFull: the boost block in a room that holds MAX_FOOD food records    *)
(***************************************************************************)
\* one frame of a room with no input, in which the food spawning system draws
\* below FOOD_SPAWN_CHANCE
SpawnStep(w) ==
    EndFrame(PhysicsStep(SizeUpdateSystem(
        FoodSpawnSystem(TailCleanupSystem(MovementSystem(w, [d \in Clients |-> NoInput],
                                                         "asc", "asc"),
                                          "asc", "asc"),
                        <<0, (w.frame * 83) % 1000, (w.frame * 377) % 1000,
                          (w.frame * 611) % 1000>>),
        "asc", "asc")))

\* n such frames: the first half of them, then the rest
RECURSIVE SpawnFor(_, _)
SpawnFor(w, n) ==
    IF n = 0 THEN w
    ELSE IF n = 1 THEN SpawnStep(w)
    ELSE LET half == SpawnFor(w, n \div 2)
         IN  IF half.frame > w.frame THEN SpawnFor(half, n - n \div 2) ELSE w

\* a room created and left alone until the food spawning system has filled it
FullRoom == SpawnFor(onRoomCreate(EmptyWorld), MAX_FOOD - FOOD_COUNT)

\* client 1 has joined the full room and is one boosted frame short of a payment
StartsFull ==
    {[world |-> BoostFor(spawnSnake(FullRoom, 1, 500, 500, 500), 1,
                         BOOST_COST_FRAMES - 1),
      connected |-> {1}]}

InitFull == Start(StartsFull)

SpecFull == InitFull /\ [][NextBoost]_vars

\* C15: the number of live food records is at most MAX_FOOD
FoodCapped == Cardinality(LiveFoods(world)) <= MAX_FOOD

\* a boost payment has been taken in a room that held MAX_FOOD food records
PaidInFullRoom ==
    /\ last.op = "movement"
    /\ \E e \in LiveHeads(world) :
          /\ world.heads[e].length < INITIAL_LENGTH
          /\ world.heads[e].boostFrames = 0
          /\ world.heads[e].boosting = 1
    /\ Cardinality(LiveFoods(world)) >= MAX_FOOD

(***************************************************************************)
(* Collision handlers and destroyed records (Spec)                         *)
(***************************************************************************)
\* C16: a collision event whose head or other record (segment or food) is
\* already destroyed changes nothing
DestroyedNoOp ==
    [][(/\ last'.op \in {"headSegment", "headFood"}
        /\ \/ world.heads[last'.head].destroyed
           \/ last'.op = "headSegment" /\ world.segs[last'.other].destroyed
           \/ last'.op = "headFood" /\ world.foods[last'.other].destroyed)
         => world' = world]_vars

\* a head killed earlier in the resolution pass has been handed a food record
DeadHeadAte ==
    /\ last.op = "headFood"
    /\ used.steps = 2
    /\ world.heads[last.head].destroyed
    /\ world.foods[last.other].destroyed

(***************************************************************************)
(* Processing order of the movement pass (Spec)                            *)
(***************************************************************************)
\* C17: whatever order the store's query returns the heads in, the movement
\* pass visits the same sequence of clients and heads, one entry for every
\* client with a live head, strictly ascending in the client-id string
ProcessingOrder ==
    \A ord \in StoreOrders :
       LET players == SortedPlayers(world, ord)[1]
           playerHeads == SortedPlayers(world, ord)[2]
       IN  /\ players = SortedPlayers(world, "asc")[1]
           /\ playerHeads = SortedPlayers(world, "asc")[2]
           /\ {players[i] : i \in 1..Len(players)} =
                 {world.heads[e].clientId : e \in LiveHeads(world)}
           /\ \A i \in 1..Len(players) : \A j \in (i + 1)..Len(players) :
                 compareStrings(getClientIdStr(players[i]),
                                getClientIdStr(players[j])) < 0

\* a movement pass has moved two heads whose creation order is the reverse of
\* the order of their client-id strings
VisitedAgainstEids ==
    /\ last.op = "movement"
    /\ \E c \in Clients, d \in Clients :
          /\ ClientHead(world, c) # 0
          /\ ClientHead(world, d) # 0
          /\ ClientHead(world, c) < ClientHead(world, d)
          /\ compareStrings(getClientIdStr(c), getClientIdStr(d)) > 0

(***************************************************************************)
(* Boost eligibility                                                       *)
(***************************************************************************)
\* C18: after a movement pass a live head's boosting flag is 1 exactly if its
\* client's boost input was held and its length before the pass was above
\* MIN_BOOST_LENGTH; a head whose flag is 0 keeps its length, and the pass
\* spawns no more food records than there are heads whose flag is 1
BoostEligibility ==
    [][last'.op = "movement"
         => /\ \A e \in LiveHeads(world) \cap LiveHeads(world') :
                  /\ world'.heads[e].boosting = 1
                        <=> (/\ world.heads[e].clientId \in last'.boost
                             /\ world.heads[e].length > MIN_BOOST_LENGTH)
                  /\ world'.heads[e].boosting = 0
                        => world'.heads[e].length = world.heads[e].length
            /\ Cardinality(DOMAIN world'.foods \ DOMAIN world.foods)
                  <= Cardinality({e \in LiveHeads(world) : world'.heads[e].boosting = 1})]_vars

\* a movement pass has left a client with two live heads, one of them not
\* boosting, while the client's boost input was held
StaleHeadNotBoosting ==
    /\ last.op = "movement"
    /\ \E e \in LiveHeads(world), f \in LiveHeads(world) :
          /\ e # f
          /\ world.heads[e].clientId = world.heads[f].clientId
          /\ world.heads[e].clientId \in last.boost
          /\ world.heads[e].boosting = 0
          /\ world.heads[e].length > MIN_BOOST_LENGTH
          /\ world.heads[f].boosting = 1

\* C19: after a movement pass a head that is not boosting has counter 0, a head
\* that is boosting and has not paid has its counter one higher, and only a
\* head whose counter stood at BOOST_COST_FRAMES - 1 pays; so boosted frames
\* before a release never count toward a payment after it
NoPartialCredit ==
    [][last'.op = "movement"
         => \A e \in LiveHeads(world) \cap LiveHeads(world') :
               /\ world'.heads[e].boosting = 0 => world'.heads[e].boostFrames = 0
               /\ (/\ world'.heads[e].boosting = 1
                   /\ world'.heads[e].length = world.heads[e].length)
                     => world'.heads[e].boostFrames = world.heads[e].boostFrames + 1
               /\ world'.heads[e].length < world.heads[e].length
                     => world.heads[e].boostFrames = BOOST_COST_FRAMES - 1]_vars

\* boost held for some frames, released for one frame and held again, fewer
\* than BOOST_COST_FRAMES frames each time: the length is still INITIAL_LENGTH
HeldReleasedHeld ==
    /\ last.op = "movement"
    /\ used.steps = 1
    /\ run[1].len0 = INITIAL_LENGTH
    /\ run[1].k \in 1..(BOOST_COST_FRAMES - 1)
    /\ used.frames > run[1].k + 1
    /\ used.frames - run[1].k < BOOST_COST_FRAMES
    /\ ClientHead(world, 1) # 0
    /\ world.heads[ClientHead(world, 1)].length = INITIAL_LENGTH
    /\ world.heads[ClientHead(world, 1)].boostFrames = run[1].k

(***************************************************************************)
(* SpecHold: a snake one payment above the floor; frames, repeated          *)
(* connects and pickups                                                     *)
(***************************************************************************)
EnvHold ==
    [twin |-> FALSE, absent |-> FALSE, shapes |-> {<<<<>>, TRUE>>, <<<<>>, FALSE>>},
     draws |-> {500}, chances |-> {500}, frames |-> MaxHoldFrames, steps |-> MaxHoldSteps]

StartsHold == {[world |-> Played(1, 500, 500, FloorFrames), connected |-> {1}]}

InitHold == Start(StartsHold)

ConnectHold == \E c \in Clients : OnConnect(c, EnvHold)

NextHold ==
    \/ ConnectHold
    \/ Movement(EnvHold)
    \/ TailCleanup(EnvHold)
    \/ FoodSpawn(EnvHold)
    \/ SizeUpdate(EnvHold)
    \/ Physics(EnvHold)
    \/ HeadFoodCollision(EnvHold)
    \/ NextFrame(EnvHold)

SpecHold == InitHold /\ [][NextHold]_vars

\* the head client 1 has when SpecHold starts
HoldHead == ClientHead(Played(1, 500, 500, FloorFrames), 1)

\* head e is live, not boosting, at the length floor
Stopped(w, e) ==
    /\ e \in LiveHeads(w)
    /\ w.heads[e].boosting = 0
    /\ w.heads[e].length = MIN_BOOST_LENGTH

\* the boosted frames head e is away from being refused
ToFloor(w, e) ==
    BOOST_COST_FRAMES * (w.heads[e].length - MIN_BOOST_LENGTH) - w.heads[e].boostFrames

\* C20: every movement pass in which its client holds boost brings a live
\* head above the floor one frame closer to the floor and leaves a head at
\* the floor not boosting with length MIN_BOOST_LENGTH, so that a head whose
\* client holds boost in every frame ends there; and a head not boosting at
\* the floor stays so for as long as it lives and eats no food
BoostStopsItself ==
    [][\A e \in LiveHeads(world) \cap LiveHeads(world') :
          /\ (/\ last'.op = "movement"
              /\ world.heads[e].clientId \in last'.boost
              /\ world.heads[e].length > MIN_BOOST_LENGTH)
                => ToFloor(world', e) < ToFloor(world, e)
          /\ (/\ last'.op = "movement"
              /\ world.heads[e].clientId \in last'.boost
              /\ world.heads[e].length = MIN_BOOST_LENGTH)
                => Stopped(world', e)
          /\ (/\ Stopped(world, e)
              /\ ~(last'.op = "headFood" /\ last'.head = e))
                => Stopped(world', e)]_vars

\* the frames are used up, boost was held in every one of them, and the head
\* client 1 started with is still boosting above the floor beside a newer head
StaleHeadKeepsBoosting ==
    /\ used.frames = MaxHoldFrames
    /\ pc = "collide"
    /\ used.steps = 1
    /\ HoldHead \in LiveHeads(world)
    /\ ClientHead(world, 1) # HoldHead
    /\ world.heads[HoldHead].boosting = 1
    /\ world.heads[HoldHead].length > MIN_BOOST_LENGTH
    /\ world.heads[ClientHead(world, 1)].boostFrames = MaxHoldFrames + 1

(***************************************************************************)
(* Segment spawning of the movement pass (Spec)                            *)
(***************************************************************************)
\* head e is due a segment in the frame of world w
Due(w, e) == w.frame - w.heads[e].lastSpawnFrame >= SEGMENT_SPAWN_INTERVAL

\* the segments a pass from w to w2 has created for the client of head e
SpawnedFor(w, w2, e) ==
    {s \in DOMAIN w2.segs \ DOMAIN w.segs :
        /\ w2.segs[s].ownerId = w.heads[e].clientId
        /\ w2.segs[s].spawnFrame = w.frame}

\* C21: a movement pass creates, for every live head it does not kill, exactly
\* one segment if the head is due (frame - lastSpawnFrame >= SEGMENT_SPAWN_INTERVAL)
\* and none otherwise; the segment carries the head's clientId as ownerId and
\* the frame as spawnFrame, a due head's lastSpawnFrame becomes the frame, and
\* the pass creates no other segment
TrailCadence ==
    [][last'.op = "movement"
         => /\ \A e \in LiveHeads(world) \cap LiveHeads(world') :
                  IF Due(world, e)
                  THEN /\ Cardinality(SpawnedFor(world, world', e)) = 1
                       /\ world'.heads[e].lastSpawnFrame = world.frame
                  ELSE /\ SpawnedFor(world, world', e) = {}
                       /\ world'.heads[e].lastSpawnFrame = world.heads[e].lastSpawnFrame
            /\ Cardinality(DOMAIN world'.segs \ DOMAIN world.segs)
                  = Cardinality({e \in LiveHeads(world) \cap LiveHeads(world') :
                                    Due(world, e)})]_vars

\* a movement pass has left a live head still due a segment, beside a newer
\* head of the same client
StaleHeadNoSegment ==
    /\ last.op = "movement"
    /\ \E e \in LiveHeads(world), f \in LiveHeads(world) :
          /\ e < f
          /\ world.heads[e].clientId = world.heads[f].clientId
          /\ Due(world, e)

PaidThisFrame(w, e) == w.heads[e].boosting = 1 /\ w.heads[e].boostFrames = 0

\* the length head e had when the frame of w began, seen after its movement pass
LengthAtFrameStart(w, e) ==
    IF PaidThisFrame(w, e) THEN w.heads[e].length + 1 ELSE w.heads[e].length

\* C23: the segments the tail cleanup pass of a frame destroys are those older
\* than frame - length * SEGMENT_SPAWN_INTERVAL for the length their owner's
\* head had when the frame began, before the boost payment of the frame's
\* movement pass
SnapshotPruning ==
    [][last'.op = "cleanup"
         => \A s \in LiveSegs(world) :
               world'.segs[s].destroyed
                  <=> \E e \in LiveHeads(world) :
                         /\ world.heads[e].clientId = world.segs[s].ownerId
                         /\ world.segs[s].spawnFrame
                               < world.frame
                                 - LengthAtFrameStart(world, e) * SEGMENT_SPAWN_INTERVAL]_vars

\* the cleanup pass of a frame in which the head paid has destroyed the segment
\* that the length of the frame's start would have kept
PrunedByNewLength ==
    /\ last.op = "cleanup"
    /\ \E e \in LiveHeads(world) :
          /\ PaidThisFrame(world, e)
          /\ \E s \in SegsOf(world, world.heads[e].clientId) :
                /\ world.segs[s].destroyed
                /\ world.segs[s].spawnFrame
                      = world.frame - LengthAtFrameStart(world, e) * SEGMENT_SPAWN_INTERVAL

(***************************************************************************)
(* SpecBlend: the steering block applied to any stored direction, the     *)
(* short ones included that no normalised turn leaves behind              *)
(***************************************************************************)
\* frames a run of SpecBlend plays beyond its start state
MaxBlendFrames == 1

\* stored directions (dirX, dirY) the steering block is applied to
BlendDirs ==
    {<<1000, 0>>, <<-176, 0>>, <<-176, 3>>, <<0, -176>>, <<-200, 0>>, <<0, 0>>}

\* world w with the direction of client c's head set to d
WithDir(w, c, d) ==
    [w EXCEPT !.heads[ClientHead(w, c)].dirX = d[1],
              !.heads[ClientHead(w, c)].dirY = d[2]]

EnvBlend ==
    [twin |-> FALSE, absent |-> FALSE,
     shapes |-> {<<<<200, 0>>, FALSE>>, <<<<0, 200>>, FALSE>>, <<<<>>, FALSE>>},
     draws |-> {500}, chances |-> {500},
     frames |-> MaxBlendFrames, steps |-> MaxBlendFrames + 1]

StartsBlend ==
    {[world |-> WithDir(Played(1, 500, 500, 0), 1, d), connected |-> {1}] : d \in BlendDirs}

InitBlend == Start(StartsBlend)

NextBlend ==
    \/ Movement(EnvBlend)
    \/ TailCleanup(EnvBlend)
    \/ FoodSpawn(EnvBlend)
    \/ SizeUpdate(EnvBlend)
    \/ Physics(EnvBlend)
    \/ NextFrame(EnvBlend)

SpecBlend == InitBlend /\ [][NextBlend]_vars

\* the blended vector of the steering block for head record sh and a target
\* more than 1 unit away, as <<newDirXFp, newDirYFp>> before the normalisation
BlendedDir(sh, target) ==
    LET dxFp == toFixed(MathRound(target[1])) - toFixed(sh.x)
        dyFp == toFixed(MathRound(target[2])) - toFixed(sh.y)
        distFp == fpSqrt(LenSqFp(dxFp, dyFp))
    IN  <<Blend(TruncDiv(sh.dirX * FP_ONE, DIR_SCALE), fpDiv(dxFp, distFp)),
          Blend(TruncDiv(sh.dirY * FP_ONE, DIR_SCALE), fpDiv(dyFp, distFp))>>

\* the steering block turns for the target and its blend has squared
\* magnitude 0, or a square root of 0
DegenerateBlend(sh, target) ==
    /\ LenSqFp(toFixed(MathRound(target[1])) - toFixed(sh.x),
               toFixed(MathRound(target[2])) - toFixed(sh.y)) > FP_ONE
    /\ \/ LenSqFp(BlendedDir(sh, target)[1], BlendedDir(sh, target)[2]) = 0
       \/ fpSqrt(LenSqFp(BlendedDir(sh, target)[1], BlendedDir(sh, target)[2])) = 0

\* the movement pass from w to w2 was run with input inp for client c alone
PassWith(w, w2, c, inp) ==
    w2 = MovementSystem(w, [d \in Clients |-> IF d = c THEN inp ELSE NoInput], "asc", "asc")

MaxInputFrames == 1
\* boosted frames played before the start state of the snake that is boosting
HeldFrames == 3

\* offsets of the target from the head, in half units: Math.round puts the
\* targets 0, 1, 1 and sqrt(2) units from the head
NearTargets == {<<0, 0>>, <<1, 0>>, <<0, -2>>, <<2, 2>>}

EnvInput ==
    [twin |-> FALSE, absent |-> TRUE,
     shapes |-> {<<off, b>> : off \in NearTargets, b \in BOOLEAN} \cup {<<<<>>, FALSE>>},
     draws |-> {500}, chances |-> {500},
     frames |-> MaxInputFrames, steps |-> MaxInputFrames + 1]

\* client 1 just joined, and client 1 after turning and then boosting straight on
StartsInput ==
    {[world |-> Played(1, 500, 500, 0), connected |-> {1}],
     [world |-> BoostFor(SteerFor(Played(1, 500, 500, 0), 1, <<-300, 7>>, TurnFrames),
                         1, HeldFrames),
      connected |-> {1}]}

InitInput == Start(StartsInput)

NextInput ==
    \/ Movement(EnvInput)
    \/ TailCleanup(EnvInput)
    \/ FoodSpawn(EnvInput)
    \/ SizeUpdate(EnvInput)
    \/ Physics(EnvInput)
    \/ NextFrame(EnvInput)

SpecInput == InitInput /\ [][NextInput]_vars

\* the squared distance, in units, from head record sh to a target rounded to integers
DistSq(sh, target) ==
    (MathRound(target[1]) - sh.x) * (MathRound(target[1]) - sh.x)
       + (MathRound(target[2]) - sh.y) * (MathRound(target[2]) - sh.y)

SameDir(sh, sh2) == sh2.dirX = sh.dirX /\ sh2.dirY = sh.dirY

\* C25: a movement pass whose input places the rounded target at a squared
\* distance of at most 1 unit squared from the head, the head's own position
\* included, leaves the head's stored direction as it was
NearTargetHolds ==
    [][last'.op = "movement"
         => \A c \in Clients : \A shape \in EnvInput.shapes :
               (/\ ClientHead(world, c) # 0
                /\ shape[1] # <<>>
                /\ DistSq(world.heads[ClientHead(world, c)],
                          InputOf(world, c, shape).target) <= 1
                /\ PassWith(world, world', c, InputOf(world, c, shape)))
                  => SameDir(world.heads[ClientHead(world, c)],
                             world'.heads[ClientHead(world, c)])]_vars

\* a movement pass has left a head that is not heading along an axis its
\* direction while it boosted: in SpecInput every input that holds boost
\* carries one of NearTargets, and the one sqrt(2) units away turns such a head
HeldNearTarget ==
    /\ last.op = "movement"
    /\ \E e \in LiveHeads(world) :
          /\ world.heads[e].boosting = 1
          /\ world.heads[e].boostFrames = HeldFrames + 1
          /\ world.heads[e].dirX # 0
          /\ world.heads[e].dirY # 0
          /\ world.heads[e].dirX = world.heads[e].prevDirX
          /\ world.heads[e].dirY = world.heads[e].prevDirY

\* the input of a pass carries no target and no boost for client c: none was
\* sent, or one without either
NoSignal(w, w2, c) ==
    \/ PassWith(w, w2, c, NoInput)
    \/ PassWith(w, w2, c, InputOf(w, c, <<<<>>, FALSE>>))

\* C26 as stated: a movement pass whose input carries no target and no boost
\* for a live head leaves the head's direction, boosting flag and boost frame
\* counter as they were
MissingInputHoldsAll ==
    [][last'.op = "movement"
         => \A c \in Clients :
               (ClientHead(world, c) # 0 /\ NoSignal(world, world', c))
                  => /\ SameDir(world.heads[ClientHead(world, c)],
                                world'.heads[ClientHead(world, c)])
                     /\ world'.heads[ClientHead(world, c)].boosting
                           = world.heads[ClientHead(world, c)].boosting
                     /\ world'.heads[ClientHead(world, c)].boostFrames
                           = world.heads[ClientHead(world, c)].boostFrames]_vars

\* C26: a movement pass whose input carries no target and no boost for a live
\* head completes, leaves the head's direction and length as they were and
\* sets its boosting flag and its boost frame counter to 0
MissingInputStopsBoost ==
    [][last'.op = "movement"
         => \A c \in Clients :
               (ClientHead(world, c) # 0 /\ NoSignal(world, world', c))
                  => /\ pc' = "cleanup"
                     /\ SameDir(world.heads[ClientHead(world, c)],
                                world'.heads[ClientHead(world, c)])
                     /\ world'.heads[ClientHead(world, c)].length
                           = world.heads[ClientHead(world, c)].length
                     /\ world'.heads[ClientHead(world, c)].boosting = 0
                     /\ world'.heads[ClientHead(world, c)].boostFrames = 0]_vars

\* a head that had boosted for HeldFrames frames has gone through a pass that
\* left it not boosting with counter 0, its length and direction unchanged
BoostDroppedWithoutInput ==
    /\ last.op = "movement"
    /\ last.boost = {}
    /\ used.frames = 0
    /\ \E e \in LiveHeads(world) :
          /\ world.heads[e].dirY # 0
          /\ world.heads[e].boosting = 0
          /\ world.heads[e].boostFrames = 0
          /\ world.heads[e].length = INITIAL_LENGTH
          /\ SameDir(world.heads[e], [dirX |-> world.heads[e].prevDirX,
                                      dirY |-> world.heads[e].prevDirY])

(***************************************************************************)
(* The previous direction (SpecSteer)                                      *)
(***************************************************************************)
\* C27: after a movement pass, the head the pass has processed for a client
\* has as (prevDirX, prevDirY) the (dirX, dirY) it had when the pass began,
\* whether the pass changed its direction or not
PreviousDirection ==
    [][last'.op = "movement"
         => \A c \in Clients :
               ClientHead(world, c) # 0
                  => /\ world'.heads[ClientHead(world, c)].prevDirX
                           = world.heads[ClientHead(world, c)].dirX
                     /\ world'.heads[ClientHead(world, c)].prevDirY
                           = world.heads[ClientHead(world, c)].dirY]_vars

\* a movement pass has turned a head that had turned in the pass before
TurnedTwice ==
    /\ last.op = "movement"
    /\ used.frames >= 1
    /\ \E e \in LiveHeads(world) :
          /\ world.heads[e].prevDirY # 0
          /\ world.heads[e].prevDirX # DIR_SCALE
          /\ \/ world.heads[e].dirX # world.heads[e].prevDirX
             \/ world.heads[e].dirY # world.heads[e].prevDirY

(***************************************************************************)
(* The velocity requested from the physics collaborator (Spec)             *)
(***************************************************************************)
\* the velocity the movement pass requests for a head record, from the
\* direction and the boosting flag the record holds after the pass
Requested(sh) ==
    LET currentSpeed == IF sh.boosting = 1 THEN BOOST_SPEED ELSE SPEED
    IN  <<RoundDiv(sh.dirX * currentSpeed * 60, DIR_SCALE),
          RoundDiv(sh.dirY * currentSpeed * 60, DIR_SCALE)>>

\* C28: after the movement pass of a frame, the velocity held for every live
\* head is, per axis, the nearest integer to dir * currentSpeed * 60 /
\* DIR_SCALE of the direction stored after the pass, where currentSpeed is
\* BOOST_SPEED exactly when the boosting flag of the head is 1 and SPEED
\* otherwise
RequestedVelocity ==
    [][last'.op = "movement"
         => \A e \in LiveHeads(world') :
               <<world'.heads[e].vx, world'.heads[e].vy>> = Requested(world'.heads[e])]_vars

\* a movement pass has left a live head standing still: the client of the
\* head has a second live head, and the pass has set the velocity of that
\* one only
StandingDuplicate ==
    /\ last.op = "movement"
    /\ \E e, f \in LiveHeads(world) :
          /\ e # f
          /\ world.heads[e].clientId = world.heads[f].clientId
          /\ <<world.heads[e].vx, world.heads[e].vy>> = <<0, 0>>
          /\ <<world.heads[f].vx, world.heads[f].vy>> = Requested(world.heads[f])
          /\ Requested(world.heads[f]) # <<0, 0>>

(***************************************************************************)
(* SpecOrphan: the systems over a store that holds live segments of a      *)
(* client without a live head                                              *)
(***************************************************************************)
\* frames a run of SpecOrphan plays beyond its start state
MaxOrphanFrames == 1

\* frames the snake of a start state of SpecOrphan has played
OrphanFrames == 3

\* store w without the head records of client c
Headless(w, c) ==
    [w EXCEPT !.heads = Restrict(w.heads, {e \in DOMAIN w.heads : w.heads[e].clientId # c}),
              !.byClient = [d \in Clients |-> IF d = c THEN 0 ELSE w.byClient[d]] @@ <<>>]

\* the live segments of w whose ownerId matches no live head
Orphans(w) ==
    {s \in LiveSegs(w) : ~\E e \in LiveHeads(w) : w.heads[e].clientId = w.segs[s].ownerId}

EnvOrphan ==
    [twin |-> FALSE, absent |-> FALSE,
     shapes |-> {<<<<0, 200>>, TRUE>>, <<<<200, 0>>, FALSE>>, <<<<>>, FALSE>>},
     draws |-> {500}, chances |-> {500, 0},
     frames |-> MaxOrphanFrames, steps |-> MaxOrphanFrames + 1]

\* the room with two snakes without the head of one of them, and the room
\* with one snake without its head
StartsOrphan ==
    {[world |-> Headless(Duel, c), connected |-> Clients \ {c}] : c \in Clients}
    \cup {[world |-> Headless(Played(1, 500, 500, n), 1), connected |-> {}] :
             n \in 1..OrphanFrames}

InitOrphan == Start(StartsOrphan)

NextOrphan ==
    \/ Movement(EnvOrphan)
    \/ TailCleanup(EnvOrphan)
    \/ FoodSpawn(EnvOrphan)
    \/ SizeUpdate(EnvOrphan)
    \/ Physics(EnvOrphan)
    \/ NextFrame(EnvOrphan)

SpecOrphan == InitOrphan /\ [][NextOrphan]_vars

NewSegsOf(w, w2, c) ==
    {s \in DOMAIN w2.segs \ DOMAIN w.segs : w2.segs[s].ownerId = c}

\* C30: a destroyed head record stays as it is through the movement, tail
\* cleanup, food spawning and size update passes (no steering, no boost cost,
\* no radius update); the movement pass spawns no segment for a client without
\* a live head and no food in a store without a live head, and it does not
\* take a destroyed record for the head of a client: the one live head of a
\* client, inside the boundary, gets its segment when one is due; killSnake for a client whose head
\* is absent or destroyed (a disconnect or a collision event) leaves the store
\* as it is
DestroyedSkipped ==
    [][/\ last'.op \in {"movement", "cleanup", "food", "size"}
            => \A e \in DOMAIN world.heads :
                  world.heads[e].destroyed
                     => e \in DOMAIN world'.heads /\ world'.heads[e] = world.heads[e]
       /\ last'.op = "movement"
            => /\ \A c \in Clients :
                     (~\E e \in LiveHeads(world) : world.heads[e].clientId = c)
                        => NewSegsOf(world, world', c) = {}
               /\ LiveHeads(world) = {} => world'.foods = world.foods
               /\ \A e \in LiveHeads(world) \cap LiveHeads(world') :
                     /\ \A f \in LiveHeads(world) :
                           world.heads[f].clientId = world.heads[e].clientId => f = e
                     /\ Due(world, e)
                     /\ ~OutOfBounds(world.heads[e].x, world.heads[e].y,
                                     world.heads[e].radius)
                     => world'.heads[e].lastSpawnFrame = world.frame
       /\ /\ last'.op \in {"disconnect", "headSegment"}
          /\ \/ getEntityByClientId(world, last'.client) = 0
             \/ world.heads[getEntityByClientId(world, last'.client)].destroyed
          => world' = world]_vars

\* a movement pass has run over a store holding the record of a head that was
\* boosting when a disconnect destroyed it before the pass
PassedOverDestroyed ==
    /\ last.op = "movement"
    /\ \E e \in DOMAIN world.heads :
          /\ world.heads[e].destroyed
          /\ e \notin last.killed
          /\ world.heads[e].boosting = 1
          /\ world.heads[e].clientId \notin connected

(***************************************************************************)
(* SpecSize: one snake of every length from the boost floor to beyond the  *)
(* cap of the size multiplier                                              *)
(***************************************************************************)
\* frames a run of SpecSize plays beyond its start state
MaxSizeFrames == 1

\* food records the snake of a start state of SpecSize has eaten
MaxMeals == 104

\* n head-vs-food events for the head of client c, each for a live food record:
\* the first half of them, then the rest
RECURSIVE Fed(_, _, _)
Fed(w, c, n) ==
    IF n = 0 THEN w
    ELSE IF n = 1
    THEN OnHeadFood(w, ClientHead(w, c), CHOOSE f \in LiveFoods(w) : TRUE)
    ELSE LET half == Fed(w, c, n \div 2)
         IN  IF half.heads[ClientHead(w, c)].length > w.heads[ClientHead(w, c)].length
             THEN Fed(half, c, n - n \div 2)
             ELSE w

EnvSize ==
    [twin |-> FALSE, absent |-> FALSE, shapes |-> {<<<<>>, TRUE>>},
     draws |-> {500}, chances |-> {500},
     frames |-> MaxSizeFrames, steps |-> MaxSizeFrames + 1]

\* client 1 has joined the full room and eaten n food records in the frame
\* before, and client 1 one boost payment above the length floor
StartsSize ==
    {[world |-> EndFrame(Fed(spawnSnake(FullRoom, 1, 500, 500, 500), 1, n)),
      connected |-> {1}] : n \in 0..MaxMeals}
    \cup {[world |-> Played(1, 500, 500, FloorFrames), connected |-> {1}]}

InitSize == Start(StartsSize)

NextSize ==
    \/ Movement(EnvSize)
    \/ TailCleanup(EnvSize)
    \/ FoodSpawn(EnvSize)
    \/ SizeUpdate(EnvSize)
    \/ Physics(EnvSize)
    \/ NextFrame(EnvSize)

SpecSize == InitSize /\ [][NextSize]_vars

\* the length from which the multiplier is capped
CapLength == INITIAL_LENGTH + 100

\* the multiplier of a length: the formula below the cap, 300 from the cap on,
\* and no larger than the multiplier of the next length
MultiplierLaw(length) ==
    /\ length < CapLength
          => getSizeMultiplier(length) = 100 + 2 * (length - INITIAL_LENGTH)
    /\ length >= CapLength => getSizeMultiplier(length) = 300
    /\ getSizeMultiplier(length) <= getSizeMultiplier(length + 1)

LiveSegsOf(w, e) == {s \in LiveSegs(w) : w.segs[s].ownerId = w.heads[e].clientId}

\* C32: from the tail cleanup pass of a frame to the frame's end, every live
\* head owns at most length * SEGMENT_SPAWN_INTERVAL + 1 live segments, no two
\* of them share a spawnFrame, and each has its spawnFrame between
\* frame - length * SEGMENT_SPAWN_INTERVAL and frame inclusive
TrailBound ==
    pc \in {"food", "size", "physics", "collide"}
       => \A e \in LiveHeads(world) :
             /\ Cardinality(LiveSegsOf(world, e))
                   <= world.heads[e].length * SEGMENT_SPAWN_INTERVAL + 1
             /\ \A s, t \in LiveSegsOf(world, e) :
                   world.segs[s].spawnFrame = world.segs[t].spawnFrame => s = t
             /\ \A s \in LiveSegsOf(world, e) :
                   /\ world.segs[s].spawnFrame
                         >= world.frame - world.heads[e].length * SEGMENT_SPAWN_INTERVAL
                   /\ world.segs[s].spawnFrame <= world.frame

\* after the tail cleanup pass of a frame a client has two live heads, and a
\* live segment of the client is older than the length of the shorter head
\* allows
StaleHeadLongTrail ==
    /\ pc = "food"
    /\ \E e, f \in LiveHeads(world) :
          /\ e < f
          /\ world.heads[e].clientId = world.heads[f].clientId
          /\ world.heads[e].length < world.heads[f].length
          /\ \E s \in LiveSegsOf(world, e) :
                world.segs[s].spawnFrame
                   < world.frame - world.heads[e].length * SEGMENT_SPAWN_INTERVAL

(***************************************************************************)
(* Food pickups (Spec)                                                     *)
(***************************************************************************)
\* the food records that the step from w to w2 has destroyed
Eaten(w, w2) ==
    {f \in DOMAIN w.foods : ~w.foods[f].destroyed /\ w2.foods[f].destroyed}

\* the head records whose length the step from w to w2 has changed
Grown(w, w2) ==
    {e \in DOMAIN w.heads : w2.heads[e].length # w.heads[e].length}

\* C33: a head-vs-food event for a food record that an earlier event has
\* destroyed changes nothing; an event for a live food record destroys that
\* record alone and adds 1 to the length of the event's head alone, so every
\* event adds as much length as it destroys food; and no step makes a
\* destroyed food record live again
FoodEatenOnce ==
    [][/\ last'.op = "headFood"
            => /\ world.foods[last'.other].destroyed => world' = world
               /\ ~world.foods[last'.other].destroyed
                     => /\ Eaten(world, world') = {last'.other}
                        /\ Grown(world, world') = {last'.head}
                        /\ world'.heads[last'.head].length
                              = world.heads[last'.head].length + 1
       /\ \A f \in DOMAIN world.foods \cap DOMAIN world'.foods :
             world.foods[f].destroyed => world'.foods[f].destroyed]_vars

\* an event for a food record destroyed in this frame has been delivered for a
\* head that has never eaten, while another live head has eaten
SecondHeadGotNothing ==
    /\ last.op = "headFood"
    /\ world.foods[last.other].destroyed
    /\ world.heads[last.head].length = INITIAL_LENGTH
    /\ ~world.heads[last.head].destroyed
    /\ \E e \in LiveHeads(world) :
          /\ e # last.head
          /\ world.heads[e].length = INITIAL_LENGTH + 1

(***************************************************************************)
(* SpecPair: movement passes over two heads, of two clients or of one      *)
(***************************************************************************)
\* frames a run of SpecPair plays beyond its start state
MaxPairFrames == 1

\* frames client 1 has played before its second connect in a start state
PairFrames == 2

EnvPair ==
    [twin |-> FALSE, absent |-> FALSE,
     shapes |-> {<<<<>>, TRUE>>, <<<<>>, FALSE>>, <<<<0, 200>>, TRUE>>, <<<<0, -200>>, FALSE>>},
     draws |-> {500}, chances |-> {500},
     frames |-> MaxPairFrames, steps |-> MaxPairFrames + 1]

\* client 1 has connected a second time without a disconnect, and its new head
\* has boosted to the right wall
TwiceAtWall ==
    BoostFor(spawnSnake(Played(1, 500, 500, PairFrames), 1, 0, 999, 500), 1, EdgeFrames)

\* client 1 has boosted to the right wall and client 2 has just joined
JoinedAtWall == spawnSnake(Played(1, 999, 500, EdgeFrames), 2, 0, 500, 500)

StartsPair ==
    {[world |-> Duel, connected |-> {1, 2}],
     [world |-> JoinedAtWall, connected |-> {1, 2}],
     [world |-> TwiceAtWall, connected |-> {1}]}

InitPair == Start(StartsPair)

NextPair ==
    \/ Movement(EnvPair)
    \/ TailCleanup(EnvPair)
    \/ FoodSpawn(EnvPair)
    \/ SizeUpdate(EnvPair)
    \/ Physics(EnvPair)
    \/ NextFrame(EnvPair)

SpecPair == InitPair /\ [][NextPair]_vars

\* the inputs the clients may hand one movement pass over w
PairInputs(w) ==
    {inputs \in [Clients -> UNION {InputsOf(w, c, EnvPair) : c \in Clients}] :
        \A c \in Clients : inputs[c] \in InputsOf(w, c, EnvPair)}

\* the fields of a head record that the movement pass writes for its own head
Steered(sh) ==
    <<sh.length, sh.dirX, sh.dirY, sh.prevDirX, sh.prevDirY, sh.boostFrames,
      sh.boosting, sh.lastSpawnFrame>>

\* from w to w2 every head but head keeps those fields, and no live segment
\* that carries the client id of a live head other than head is destroyed
OthersKept(w, w2, head) ==
    /\ \A e \in DOMAIN w.heads \ {head} : Steered(w2.heads[e]) = Steered(w.heads[e])
    /\ \A s \in LiveSegs(w) :
          (\E e \in LiveHeads(w) \ {head} : w.heads[e].clientId = w.segs[s].ownerId)
             => ~w2.segs[s].destroyed

\* w and w2 hold the same head records and the same segment records, whatever
\* ids the new segments got
SameHeadsAndSegs(w, w2) ==
    /\ w.heads = w2.heads
    /\ {w.segs[s] : s \in DOMAIN w.segs} = {w2.segs[s] : s \in DOMAIN w2.segs}

\* the movement pass over w with the players taken in the opposite order
ReversePass(w, inputs) ==
    MoveAll(w, Reverse(SortedPlayers(w, "asc")[1]), SortedPlayers(w, "asc")[2],
            inputs, "asc")

\* C34: the iteration of the movement pass for one head leaves the length,
\* direction, previous direction, boost counter, boosting flag and
\* lastSpawnFrame of every other head as they are and destroys no live segment
\* of another live head, and the pass over the players in the opposite order
\* ends with the same head and segment records
PassIsolated ==
    [][last'.op = "movement"
         => /\ \E inputs \in PairInputs(world) :
                  world' = MovementSystem(world, inputs, "asc", "asc")
            /\ \A inputs \in PairInputs(world) :
                  world' = MovementSystem(world, inputs, "asc", "asc")
                     => /\ \A c \in Clients :
                              ClientHead(world, c) # 0
                                 => OthersKept(world,
                                       MoveOne(world, c, ClientHead(world, c), inputs[c], "asc"),
                                       ClientHead(world, c))
                        /\ SameHeadsAndSegs(world', ReversePass(world, inputs))]_vars

\* a movement pass has killed a head at the boundary and with it destroyed the
\* segments of a head of the same client that is still live
TrailLostToTwin ==
    /\ last.op = "movement"
    /\ \E e \in LiveHeads(world) : \E f \in last.killed :
          /\ e # f
          /\ world.heads[e].clientId = world.heads[f].clientId
          /\ \E s \in DOMAIN world.segs :
                /\ world.segs[s].ownerId = world.heads[e].clientId
                /\ world.segs[s].destroyed
                /\ world.segs[s].spawnFrame < world.heads[e].lastSpawnFrame + 1

====
